---- MODULE Spec2Model ----
(***************************************************************************)
(* Model of the MailwizzTester delivery-server test engine.               *)
(*                                                                         *)
(* One orchestrator run (MailwizzTester.runForDeliveryServer) is a         *)
(* sequence of awaited stages inside a try block, followed by a catch      *)
(* block that writes a test row, demotes the server and rethrows.  Runs    *)
(* are sequential.  The three tables the orchestrator touches are kept as  *)
(* state: mw_delivery_server (status per server id), the                   *)
(* mailwizz_delivery_servers_tests table (append-only rows) and            *)
(* mw_delivery_server_to_customer_group (rows, duplicates representable).  *)
(* Every database round-trip may throw (DbConnector.query rethrows).       *)
(***************************************************************************)
EXTENDS Integers, Sequences, FiniteSets, TLC

(***************************************************************************)
(* Bounds of the model.                                                    *)
(***************************************************************************)
MaxRuns == 2
MaxAttemptsChoice == 4
MaxMessages == 2
MaxCycles == 2
MaxElements == 2

(***************************************************************************)
(* Program constants.                                                      *)
(***************************************************************************)
MAILWIZZ_DEFAULT_CUSTOMER_GROUP_ID == 2
DefaultMaxAttempts == 20
DefaultTimeBetweenAttemptsMs == 60000
DEFAULT_BOUNCE_MAX_ATTEMPTS == 10
DEFAULT_BOUNCE_RETRY_DELAY_MS == 60000

ServerIds == {41, 42}

(***************************************************************************)
(* Errors.  A message is a record: `text` is the fixed text, `n` a number  *)
(* interpolated into it (0 when there is none) and `detail` the            *)
(* interpolated or joined sub-messages.  An Error object carries a         *)
(* message.                                                                *)
(***************************************************************************)
Message(text, n, detail) == [text |-> text, n |-> n, detail |-> detail]
NullMessage == Message("NULL", 0, <<>>)
Err(text, n, detail) == [name |-> "Error", message |-> Message(text, n, detail)]
NewError(message) == [name |-> "Error", message |-> message]
NoError == [name |-> "none", message |-> NullMessage]
\* A message without interpolation.
Text(t) == Message(t, 0, <<>>)
\* Object.values(x.errors).filter(Boolean).join(', '): one message joined is
\* that message itself.
Join(msgs) == IF Len(msgs) = 1 THEN msgs[1] ELSE Message(", ", 0, msgs)
DbError == Err("Database query error", 0, <<>>)
NotFoundError(id) == Err("Delivery server with ID not found", id, <<>>)
NoCampaignIdError == Err("Campaign creation stored procedure did not return a campaign ID", 0, <<>>)
RetrievalFailedError(maxAtt, last) == Err("Email retrieval failed after attempts", maxAtt, <<last>>)

UNDEFINED == "undefined"

VARIABLES
    mw_delivery_server,     \* server id -> "active" | "inactive" | "absent"
    tests_table,            \* mailwizz_delivery_servers_tests: sequence of rows
    group_table,            \* mw_delivery_server_to_customer_group: sequence of rows
    pc,                     \* position of the orchestrator
    runId,                  \* number of runs started so far
    serverId,               \* mailwizzDeliveryServerId of the run in flight
    error,                  \* the error caught by the catch block
    calls,                  \* calls made by the run, in order, with their outcome
    outcome,                \* how the last run ended
    rowsAtStart,            \* Len(tests_table) when the run started
    statusAtStart,          \* mw_delivery_server when the run started
    signals,                \* open/click/unsubscribe success of the interaction stage
    successes,              \* server id -> number of runs that returned normally
    rpc,                    \* position of retrieveEmailWithRetries
    maxAttempts,            \* its maxAttempts argument
    attempts,               \* its attempts counter
    waits,                  \* number of Delay.wait calls it made
    lastError,              \* its lastError variable
    attemptOutcome,         \* what the mailbox answered to the latest attempt
    retrieverError,         \* the error retrieveEmailWithRetries threw
    timeBetweenAttemptsMs,  \* its timeBetweenAttemptsMs argument
    waitedMs,               \* total time spent in Delay.wait
    audit,                  \* open/click/unsubscribe/bounce records seen by the audit stage
    uuid,                   \* campaignSubjectUuid of the retrieval call
    session,                \* the POP3 session of the client in use: "none" | "open"
    client,                 \* number of the Pop3Command instance in use (0: none)
    opened,                 \* sessions opened by the retrieval call
    closed,                 \* sessions ended by the retrieval call
    messageList,            \* the UIDL listing of the attempt
    cursor,                 \* position of the for loop in messageList
    fetched,                \* message numbers the attempt has RETRieved, in order
    pending,                \* completion of the try block awaiting the finally
    retrievalResult,        \* the ParsedEmail the call returned
    ipc,                    \* position of startEmailInteractions
    emailLinks,             \* the links EmailLinkExtractor finds in the email
    requests,               \* HTTP GETs issued, in order, with what came back
    result,                 \* the EmailInteractionResult
    interactorError,        \* the error startEmailInteractions threw
    vpc,                    \* position of validateInteractionRecords
    queries,                \* store queries made by the audit, in order
    vresult,                \* the EmailInteractionValidationResult
    bounceAttempts,         \* attempts of validateBounceRecordsWithRetry
    bounceWaits,            \* Delay.wait calls of validateBounceRecordsWithRetry
    bounceWaitedMs,         \* total time it spent in Delay.wait
    bounceLastError,        \* its lastError variable
    bounceResult,           \* what it returned
    validatorError,         \* the error validateInteractionRecords threw
    hpc,                    \* position of testEmailHeaders
    email,                  \* the ParsedEmail given to testEmailHeaders
    headerNames,            \* the header names as the received message writes them
    from_email,             \* mailwizzDeliveryServer.from_email
    hresult,                \* the EmailHeaderTestResult
    headerError,            \* the error testEmailHeaders threw
    spc,                    \* position of the auto-runner (main loop and runAutoTestCycle)
    cycles,                 \* number of scan cycles started
    last_updated_recent,    \* servers whose last_updated lies within the last hour
    tested_recent,          \* servers with a test row inserted within the last 24 hours
    serversToTest,          \* the list the cycle iterates over
    scanIndex,              \* position of the for loop in serversToTest
    started,                \* server ids runForDeliveryServer was called with, this cycle
    inFlight,               \* runs started and not yet completed
    runOutcomes,            \* how the runs of this cycle ended, in order
    pool,                   \* DbConnector.pool: "null" | "open" | "ending"
    sig,                    \* the SIGINT handler: "none" | "closing" | "exited"
    lpc,                    \* position of the on-demand request handler
    lambda,                 \* which handler serves the request
    queryStringParameters,  \* event.queryStringParameters
    response,               \* the APIGatewayProxyResult returned
    lambdaRun,              \* the run the handler started, and how it ended
    jpc,                    \* position of a run between step 2 and step 3
    injections,             \* number of CampaignCreator.run calls so far
    uuidsIssued,            \* number of uuidv4() calls made by the process
    campaign_table,         \* campaigns the stored procedure created, in order
    campaignData,           \* what CampaignCreator.run returned
    injectorError,          \* the error CampaignCreator.run threw
    searched,               \* the uuids retrieveEmailWithRetries was called with
    inbox,                  \* subjects of the mails in the test recipient's mailbox
    overlap,                \* whether runs of different servers may overlap in time
    cpc,                    \* position of the run of each server
    mw_list_subscriber,     \* status of the two test subscribers of the test list
    mw_email_blacklist,     \* the blacklisted addresses
    campaign,               \* the campaign of each run and what became of it
    concOutcome,            \* how the run of each server ended
    xpc,                    \* the interaction handler that extracts next
    emailContent,           \* the elements of the email's HTML, in document order
    extracted,              \* what each extractor returned
    interactedLinks,        \* result.interactedLinks: the URLs acted on
    DELAY_BETWEEN_RUNS_MINUTES,  \* process.env.DELAY_BETWEEN_RUNS_MINUTES of the auto-runner
    ppc,                    \* position of a run in step 1, MailwizzDatabasePreparator.run
    prepared,               \* the server MailwizzDatabasePreparator.run was called with
    statements,             \* the statements the preparator issued, in order
    quota,                  \* the quota columns of each mw_delivery_server row
    injectionStarted        \* whether the run went on to CampaignCreator.run

orchVars == <<mw_delivery_server, tests_table, group_table, pc, runId, serverId,
              error, calls, outcome, rowsAtStart, statusAtStart, signals,
              successes, audit>>
retrVars == <<rpc, maxAttempts, attempts, waits, lastError, attemptOutcome,
              retrieverError, timeBetweenAttemptsMs, waitedMs>>
mboxVars == <<uuid, session, client, opened, closed, messageList, cursor,
              fetched, pending, retrievalResult>>
intVars == <<ipc, emailLinks, requests, result, interactorError>>
valVars == <<vpc, queries, vresult, bounceAttempts, bounceWaits, bounceWaitedMs,
             bounceLastError, bounceResult, validatorError>>
hdrVars == <<hpc, email, headerNames, from_email, hresult, headerError>>
stageVars == <<mboxVars, intVars, valVars, hdrVars>>
scanVars == <<spc, cycles, last_updated_recent, tested_recent, serversToTest,
              scanIndex, started, inFlight, runOutcomes, pool, sig>>
handlerVars == <<lpc, lambda, queryStringParameters, response, lambdaRun>>
injVars == <<jpc, injections, uuidsIssued, campaign_table, campaignData,
             injectorError, searched, inbox>>
concVars == <<overlap, cpc, mw_list_subscriber, mw_email_blacklist, campaign,
              concOutcome>>
extVars == <<xpc, emailContent, extracted, interactedLinks>>
envVars == <<DELAY_BETWEEN_RUNS_MINUTES>>
prepVars == <<ppc, prepared, statements, quota, injectionStarted>>
notScanVars == <<handlerVars, injVars, concVars, extVars,
    envVars, prepVars>>
notHandlerVars == <<scanVars, injVars, concVars, extVars,
    envVars, prepVars>>
notInjVars == <<scanVars, handlerVars, concVars, extVars,
    envVars, prepVars>>
notConcVars == <<scanVars, handlerVars, injVars, extVars,
    envVars, prepVars>>
notExtVars == <<scanVars, handlerVars, injVars, concVars,
    envVars, prepVars>>
entryVars == <<scanVars, handlerVars, injVars, concVars, extVars,
    envVars, prepVars>>
vars == <<orchVars, retrVars, stageVars, entryVars>>

(***************************************************************************)
(* EmailRetriever.retrieveEmailWithRetries                                 *)
(***************************************************************************)
\* What one call of retrieveEmailBySubjectUuid can end with: the parsed
\* email, or an error whose message is one of these.
AttemptErrors == {"Email with UUID not found", "connect failed", "RETR failed"}
AttemptOutcomes == {"found"} \cup AttemptErrors
Intervals == {1000, DefaultTimeBetweenAttemptsMs}

\* A loop that makes one attempt more than maxAttempts.
LoopContinuesOnceMore(att, maxAtt) == att <= maxAtt

\* while (attempts < maxAttempts)
LoopContinues(att, maxAtt) == att < maxAtt

\* A loop that waits after every failed attempt, the last included.
ShouldWaitAlways(att, maxAtt) == TRUE

\* if (attempts < maxAttempts) await Delay.wait(...)
ShouldWait(att, maxAtt) == att < maxAtt

\* lastError = error instanceof Error ? error.message : String(error)
NextLastError(prev, msg) == msg

\* The arguments and locals at the start of a call.
RetrieverEntry(maxAtt, interval) ==
    /\ rpc' = "loop"
    /\ maxAttempts' = maxAtt
    /\ timeBetweenAttemptsMs' = interval
    /\ attempts' = 0
    /\ waits' = 0
    /\ waitedMs' = 0
    /\ lastError' = UNDEFINED
    /\ attemptOutcome' = "none"
    /\ retrieverError' = NoError

RetrieverIdle ==
    /\ rpc = "idle"
    /\ maxAttempts = 0
    /\ timeBetweenAttemptsMs = 0
    /\ attempts = 0
    /\ waits = 0
    /\ waitedMs = 0
    /\ lastError = UNDEFINED
    /\ attemptOutcome = "none"
    /\ retrieverError = NoError

\* One iteration of the loop up to (and including) the decision to wait.
AttemptRetrieval ==
    /\ rpc = "loop"
    /\ LoopContinues(attempts, maxAttempts)
    /\ attempts' = attempts + 1
    /\ \E r \in AttemptOutcomes :
        /\ attemptOutcome' = r
        /\ IF r = "found"
           THEN /\ rpc' = "returned"
                /\ lastError' = lastError
           ELSE /\ lastError' = NextLastError(lastError, r)
                /\ rpc' = IF ShouldWait(attempts + 1, maxAttempts)
                          THEN "waiting" ELSE "loop"
    /\ UNCHANGED <<maxAttempts, timeBetweenAttemptsMs, waits, waitedMs,
                   retrieverError>>
    /\ UNCHANGED orchVars
    /\ UNCHANGED <<stageVars, entryVars>>

\* await Delay.wait(timeBetweenAttemptsMs)
DelayWait ==
    /\ rpc = "waiting"
    /\ waits' = waits + 1
    /\ waitedMs' = waitedMs + timeBetweenAttemptsMs
    /\ rpc' = "loop"
    /\ UNCHANGED <<maxAttempts, timeBetweenAttemptsMs, attempts, lastError,
                   attemptOutcome, retrieverError>>
    /\ UNCHANGED orchVars
    /\ UNCHANGED <<stageVars, entryVars>>

\* throw new Error(`Email retrieval failed after ${maxAttempts} attempts: ${lastError}`)
RetrievalExhausted ==
    /\ rpc = "loop"
    /\ ~LoopContinues(attempts, maxAttempts)
    /\ retrieverError' = RetrievalFailedError(maxAttempts, lastError)
    /\ rpc' = "threw"
    /\ UNCHANGED <<maxAttempts, timeBetweenAttemptsMs, attempts, waits, waitedMs,
                   lastError, attemptOutcome>>
    /\ UNCHANGED orchVars
    /\ UNCHANGED <<stageVars, entryVars>>

(***************************************************************************)
(* Data-layer operations                                                   *)
(***************************************************************************)
\* MailwizzDeliveryServersTestsDbConnector.create(deliveryServerId): the row
\* the INSERT writes.  The method declares one parameter and binds the
\* status column to MailwizzDeliveryServersTestsStatus.PENDING; it names no
\* error_message column, which is therefore NULL.
create(deliveryServerId) ==
    [delivery_server_id |-> deliveryServerId,
     status |-> "PENDING",
     error_message |-> NullMessage]

\* UPDATE mailwizz.mw_delivery_server SET status = ? WHERE server_id = ?
updateDeliveryServerStatus(table, id, status) ==
    [s \in DOMAIN table |->
        IF s = id /\ table[s] # "absent" THEN status ELSE table[s]]

GroupRow(id, groupId) == [server_id |-> id, group_id |-> groupId]

\* A connector that inserts without looking for an existing row.
existingMappingNever(table, id, groupId) == FALSE

\* querySingle(checkQuery, [serverId, groupId]): the first matching row or null
existingMapping(table, id, groupId) ==
    \E i \in 1..Len(table) : table[i] = GroupRow(id, groupId)

\* The table after addDeliveryServerToCustomerGroup when no query throws.
addDeliveryServerToCustomerGroup(table, id, groupId) ==
    IF existingMapping(table, id, groupId)
    THEN table
    ELSE Append(table, GroupRow(id, groupId))

(***************************************************************************)
(* Stage results                                                           *)
(***************************************************************************)
SignalResults == {"ok", "nolink", "failed"}

\* result.errors of EmailInteractor.simulateEmailInteractions, joined
InteractionErrors(o, c, u) ==
    (IF o = "ok" THEN <<>>
     ELSE IF o = "nolink" THEN <<Text("No tracking pixel URL found")>>
     ELSE <<Text("open request error")>>)
    \o (IF c = "ok" THEN <<>>
        ELSE IF c = "nolink" THEN <<Text("No content links found")>>
        ELSE <<Text("click request error")>>)
    \o (IF u = "ok" THEN <<>>
        ELSE IF u = "nolink" THEN <<Text("No unsubscribe link found")>>
        ELSE <<Text("unsubscribe request error")>>)

Count(flags) == Cardinality({i \in DOMAIN flags : flags[i]})

\* A simulator that needs all three signals.
InteractionSuccessAllThree(o, c, u) == Count(<<o = "ok", c = "ok", u = "ok">>) = 3

\* result.success = successCount >= 2
InteractionSuccess(o, c, u) == Count(<<o = "ok", c = "ok", u = "ok">>) >= 2

OpenRecordsError == Text("No email open tracking records found in database")
ClickRecordsError == Text("No URL click tracking records found in database")
UnsubscribeRecordsError == Text("No unsubscribe tracking records found in database")

\* `No bounce records found after ${maxAttempts} attempts${lastError ? `: ${lastError}` : ''}`
BounceError(maxAtt, last) ==
    Message("No bounce records found after attempts", maxAtt,
            IF last = UNDEFINED THEN <<>> ELSE <<last>>)

\* result.errors of validateEmailInteractionsFromMailwizz, in property order
ValidationErrors(o, c, u, b) ==
    (IF o THEN <<>> ELSE <<OpenRecordsError>>)
    \o (IF c THEN <<>> ELSE <<ClickRecordsError>>)
    \o (IF u THEN <<>> ELSE <<UnsubscribeRecordsError>>)
    \o (IF b THEN <<>>
        ELSE <<BounceError(DEFAULT_BOUNCE_MAX_ATTEMPTS, UNDEFINED)>>)

\* An audit that tolerates one missing signal.
ValidationSuccessThreeOfFour(o, c, u, b) == Count(<<o, c, u, b>>) >= 3

\* result.success = successCount == 4
ValidationSuccess(o, c, u, b) == Count(<<o, c, u, b>>) = 4

\* result.errors of validateEmailHeaders, joined
HeaderErrors(sender, from, replyTo) ==
    (IF sender THEN <<>> ELSE <<Text("senderError")>>)
    \o (IF from THEN <<>> ELSE <<Text("fromError")>>)
    \o (IF replyTo THEN <<>> ELSE <<Text("replyToError")>>)

\* A header validation with the threshold of the interaction stage.
HeaderSuccessTwoOfThree(sender, from, replyTo) ==
    Count(<<sender, from, replyTo>>) >= 2

\* result.success = result.hasSender && result.hasFrom && result.hasReplyTo
HeaderSuccess(sender, from, replyTo) == sender /\ from /\ replyTo

(***************************************************************************)
(* MailwizzTester.runForDeliveryServer                                     *)
(***************************************************************************)
\* The awaited calls of the try block, in program order.
TryStages ==
    <<"getDeliveryServer", "MailwizzDatabasePreparator.run", "CampaignCreator.run",
      "retrieveEmailWithRetries", "startEmailInteractions",
      "validateInteractionRecords", "testEmailHeaders", "create(SUCCESSFUL)",
      "addDeliveryServerToCustomerGroup">>

StageIndex(stage) == CHOOSE i \in 1..Len(TryStages) : TryStages[i] = stage

\* An orchestrator that goes from the interaction stage straight to the headers.
AfterStageSkipsAudit(stage) ==
    IF stage = "startEmailInteractions" THEN "testEmailHeaders"
    ELSE IF StageIndex(stage) < Len(TryStages)
    THEN TryStages[StageIndex(stage) + 1]
    ELSE "return"

\* Where control goes when the awaited call of `stage` resolves.
AfterStage(stage) ==
    IF StageIndex(stage) < Len(TryStages)
    THEN TryStages[StageIndex(stage) + 1]
    ELSE "return"

\* An orchestrator that swallows a stage's error and carries on.
OnThrowContinues(stage) == AfterStage(stage)

\* Where control goes when the awaited call of `stage` rejects: the catch block.
OnThrow(stage) == "catch"

\* const errorMessage = error instanceof Error ? error.message : String(error)
ErrorMessage(e) == e.message

Call(op, ok) == [op |-> op, ok |-> ok]

Resolve(stage) ==
    /\ pc' = AfterStage(stage)
    /\ calls' = Append(calls, Call(stage, TRUE))
    /\ error' = error

Reject(stage, e) ==
    /\ pc' = OnThrow(stage)
    /\ calls' = Append(calls, Call(stage, FALSE))
    /\ error' = e

IdleOutcome == [kind |-> "none", error |-> NoError]

\* A caller (the scanner, the request handler, the script) invokes the run.
StartRun ==
    /\ pc = "idle"
    /\ runId < MaxRuns
    /\ \E id \in ServerIds : serverId' = id
    /\ runId' = runId + 1
    /\ pc' = TryStages[1]
    /\ error' = NoError
    /\ calls' = <<>>
    /\ outcome' = IdleOutcome
    /\ rowsAtStart' = Len(tests_table)
    /\ statusAtStart' = mw_delivery_server
    /\ signals' = <<>>
    /\ audit' = <<>>
    /\ UNCHANGED <<mw_delivery_server, tests_table, group_table, successes>>
    /\ UNCHANGED retrVars
    /\ UNCHANGED <<stageVars, entryVars>>

\* const mailwizzDeliveryServer = await this.getDeliveryServer(id)
GetDeliveryServer ==
    /\ pc = "getDeliveryServer"
    /\ \/ Reject("getDeliveryServer", DbError)
       \/ /\ mw_delivery_server[serverId] = "absent"
          /\ Reject("getDeliveryServer", NotFoundError(serverId))
       \/ /\ mw_delivery_server[serverId] # "absent"
          /\ Resolve("getDeliveryServer")
    /\ UNCHANGED <<mw_delivery_server, tests_table, group_table, runId, serverId,
                   outcome, rowsAtStart, statusAtStart, signals, successes, audit>>
    /\ UNCHANGED retrVars
    /\ UNCHANGED <<stageVars, entryVars>>

\* Step 1: await new MailwizzDatabasePreparator().run(server).  The blacklist
\* and subscription updates swallow their errors; the quota update does not.
Prepare ==
    /\ pc = "MailwizzDatabasePreparator.run"
    /\ \/ Reject("MailwizzDatabasePreparator.run", DbError)
       \/ Resolve("MailwizzDatabasePreparator.run")
    /\ UNCHANGED <<mw_delivery_server, tests_table, group_table, runId, serverId,
                   outcome, rowsAtStart, statusAtStart, signals, successes, audit>>
    /\ UNCHANGED retrVars
    /\ UNCHANGED <<stageVars, entryVars>>

\* Step 2: await new CampaignCreator().run(server), then the call of step 3
\* with the default maxAttempts and timeBetweenAttemptsMs.
CreateCampaign ==
    /\ pc = "CampaignCreator.run"
    /\ \/ /\ \E e \in {DbError, NoCampaignIdError} : Reject("CampaignCreator.run", e)
          /\ UNCHANGED retrVars
       \/ /\ Resolve("CampaignCreator.run")
          /\ RetrieverEntry(DefaultMaxAttempts, DefaultTimeBetweenAttemptsMs)
    /\ UNCHANGED <<stageVars, entryVars>>
    /\ UNCHANGED <<mw_delivery_server, tests_table, group_table, runId, serverId,
                   outcome, rowsAtStart, statusAtStart, signals, successes, audit>>

\* Step 3 completes: retrieveEmailWithRetries returned or threw.
AfterRetrieve ==
    /\ pc = "retrieveEmailWithRetries"
    /\ \/ /\ rpc = "returned"
          /\ Resolve("retrieveEmailWithRetries")
       \/ /\ rpc = "threw"
          /\ Reject("retrieveEmailWithRetries", retrieverError)
    /\ rpc' = "idle"
    /\ maxAttempts' = 0
    /\ timeBetweenAttemptsMs' = 0
    /\ attempts' = 0
    /\ waits' = 0
    /\ waitedMs' = 0
    /\ lastError' = UNDEFINED
    /\ attemptOutcome' = "none"
    /\ retrieverError' = NoError
    /\ UNCHANGED <<mw_delivery_server, tests_table, group_table, runId, serverId,
                   outcome, rowsAtStart, statusAtStart, signals, successes, audit>>
    /\ UNCHANGED <<stageVars, entryVars>>

\* Step 4: await new EmailInteractor().startEmailInteractions(emailResult)
StartEmailInteractions ==
    /\ pc = "startEmailInteractions"
    /\ \E o, c, u \in SignalResults :
        /\ signals' = <<o = "ok", c = "ok", u = "ok">>
        /\ IF InteractionSuccess(o, c, u)
           THEN Resolve("startEmailInteractions")
           ELSE Reject("startEmailInteractions",
                       NewError(Join(InteractionErrors(o, c, u))))
    /\ UNCHANGED <<mw_delivery_server, tests_table, group_table, runId, serverId,
                   outcome, rowsAtStart, statusAtStart, successes, audit>>
    /\ UNCHANGED retrVars
    /\ UNCHANGED <<stageVars, entryVars>>

\* Step 5: await new EmailInteractionValidator().validateInteractionRecords(campaignId)
ValidateInteractionRecords ==
    /\ pc = "validateInteractionRecords"
    /\ \E o, c, u, b \in BOOLEAN :
        /\ audit' = <<o, c, u, b>>
        /\ IF ValidationSuccess(o, c, u, b)
           THEN Resolve("validateInteractionRecords")
           ELSE Reject("validateInteractionRecords",
                       NewError(Join(ValidationErrors(o, c, u, b))))
    /\ UNCHANGED <<mw_delivery_server, tests_table, group_table, runId, serverId,
                   outcome, rowsAtStart, statusAtStart, signals, successes>>
    /\ UNCHANGED retrVars
    /\ UNCHANGED <<stageVars, entryVars>>

\* Step 6: await new EmailHeaderTester().testEmailHeaders(emailResult, server)
TestEmailHeaders ==
    /\ pc = "testEmailHeaders"
    /\ \E sender, from, replyTo \in BOOLEAN :
        IF HeaderSuccess(sender, from, replyTo)
        THEN Resolve("testEmailHeaders")
        ELSE Reject("testEmailHeaders",
                    NewError(Join(HeaderErrors(sender, from, replyTo))))
    /\ UNCHANGED <<mw_delivery_server, tests_table, group_table, runId, serverId,
                   outcome, rowsAtStart, statusAtStart, signals, successes, audit>>
    /\ UNCHANGED retrVars
    /\ UNCHANGED <<stageVars, entryVars>>

\* Step 7: await testsDbConnector.create(id, SUCCESSFUL).  create declares a
\* single parameter, so the status argument is discarded by the call.
CreateSuccessful ==
    /\ pc = "create(SUCCESSFUL)"
    /\ \/ /\ Reject("create(SUCCESSFUL)", DbError)
          /\ UNCHANGED tests_table
       \/ /\ Resolve("create(SUCCESSFUL)")
          /\ tests_table' = Append(tests_table, create(serverId))
    /\ UNCHANGED <<mw_delivery_server, group_table, runId, serverId,
                   outcome, rowsAtStart, statusAtStart, signals, successes, audit>>
    /\ UNCHANGED retrVars
    /\ UNCHANGED <<stageVars, entryVars>>

\* Step 8: await groupDbConnector.addDeliveryServerToCustomerGroup(id, 2);
\* the connector rethrows the error of its check or of its insert.
AddToGroup ==
    /\ pc = "addDeliveryServerToCustomerGroup"
    /\ \/ /\ Reject("addDeliveryServerToCustomerGroup", DbError)
          /\ UNCHANGED group_table
       \/ /\ Resolve("addDeliveryServerToCustomerGroup")
          /\ group_table' = addDeliveryServerToCustomerGroup(
                                group_table, serverId, MAILWIZZ_DEFAULT_CUSTOMER_GROUP_ID)
    /\ UNCHANGED <<mw_delivery_server, tests_table, runId, serverId,
                   outcome, rowsAtStart, statusAtStart, signals, successes, audit>>
    /\ UNCHANGED retrVars
    /\ UNCHANGED <<stageVars, entryVars>>

\* The try block ran to its end: the method returns.
ReturnNormally ==
    /\ pc = "return"
    /\ pc' = "idle"
    /\ outcome' = [kind |-> "returned", error |-> NoError]
    /\ successes' = [successes EXCEPT ![serverId] = @ + 1]
    /\ UNCHANGED <<mw_delivery_server, tests_table, group_table, runId, serverId,
                   error, calls, rowsAtStart, statusAtStart, signals, audit>>
    /\ UNCHANGED retrVars
    /\ UNCHANGED <<stageVars, entryVars>>

\* catch (error): await testsDbConnector.create(id, FAILED, errorMessage).
\* The await is outside the inner try: if it rejects, its error leaves the
\* method and the rest of the catch block is skipped.
CatchCreate ==
    /\ pc = "catch"
    /\ \/ /\ calls' = Append(calls, Call("create(FAILED)", FALSE))
          /\ pc' = "idle"
          /\ outcome' = [kind |-> "raised", error |-> DbError]
          /\ UNCHANGED tests_table
       \/ /\ calls' = Append(calls, Call("create(FAILED)", TRUE))
          /\ pc' = "catch_update"
          /\ tests_table' = Append(tests_table, create(serverId))
          /\ UNCHANGED outcome
    /\ UNCHANGED <<mw_delivery_server, group_table, runId, serverId, error,
                   rowsAtStart, statusAtStart, signals, successes, audit>>
    /\ UNCHANGED retrVars
    /\ UNCHANGED <<stageVars, entryVars>>

\* try { await updateDeliveryServerStatus(id, 'inactive') } catch { log }
CatchUpdateStatus ==
    /\ pc = "catch_update"
    /\ \/ /\ calls' = Append(calls, Call("updateDeliveryServerStatus", FALSE))
          /\ UNCHANGED mw_delivery_server
       \/ /\ calls' = Append(calls, Call("updateDeliveryServerStatus", TRUE))
          /\ mw_delivery_server' =
                updateDeliveryServerStatus(mw_delivery_server, serverId, "inactive")
    /\ pc' = "rethrow"
    /\ UNCHANGED <<tests_table, group_table, runId, serverId, error, outcome,
                   rowsAtStart, statusAtStart, signals, successes, audit>>
    /\ UNCHANGED retrVars
    /\ UNCHANGED <<stageVars, entryVars>>

\* throw error
Rethrow ==
    /\ pc = "rethrow"
    /\ pc' = "idle"
    /\ outcome' = [kind |-> "raised", error |-> error]
    /\ UNCHANGED <<mw_delivery_server, tests_table, group_table, runId, serverId,
                   error, calls, rowsAtStart, statusAtStart, signals, successes, audit>>
    /\ UNCHANGED retrVars
    /\ UNCHANGED <<stageVars, entryVars>>

(***************************************************************************)
(* EmailRetriever.retrieveEmailBySubjectUuid, step by step.  A string is a *)
(* sequence of characters.                                                 *)
(***************************************************************************)
\* campaignSubjectUuid values of two runs.
Tags == {<<"a", "b">>, <<"a">>}

\* Subjects found in the mailbox: "T [ab]", "T ab", "T [a]", "R[ab]x".
Subjects ==
    {<<"T", " ", "[", "a", "b", "]">>,
     <<"T", " ", "a", "b">>,
     <<"T", " ", "[", "a", "]">>,
     <<"R", "[", "a", "b", "]", "x">>}

\* A raw message: whether simpleParser accepts it, whether it has a Subject
\* header, and that header.
RawEmail(wellFormed, hasSubject, subject) ==
    [wellFormed |-> wellFormed, hasSubject |-> hasSubject, subject |-> subject]
RawEmails ==
    {RawEmail(TRUE, TRUE, subj) : subj \in Subjects}
        \cup {RawEmail(TRUE, FALSE, <<>>), RawEmail(FALSE, FALSE, <<>>)}

\* What UIDL can list: the messages of the maildrop, in order; message
\* number i is the i-th of them.
Listings == UNION {[1..n -> RawEmails] : n \in 0..MaxMessages}

\* The null parseEmailAsync returns when simpleParser throws.
NullEmail == [subject |-> <<>>, rawContent |-> 0]

\* parseEmailAsync: subject: parsed.subject || '', rawContent: rawEmail
parseEmailAsync(raw, msgNum) ==
    IF ~raw.wellFormed THEN NullEmail
    ELSE [subject |-> IF raw.hasSubject THEN raw.subject ELSE <<>>,
          rawContent |-> msgNum]

\* String.prototype.includes
Includes(str, sub) ==
    \E i \in 1..(Len(str) - Len(sub) + 1) : SubSeq(str, i, i + Len(sub) - 1) = sub

\* A match on the bare uuid, without the brackets.
isEmailForSubjectUuidBare(parsed, id) == Includes(parsed.subject, id)

\* return email.subject.includes(`[${uuid}]`)
isEmailForSubjectUuid(parsed, id) ==
    Includes(parsed.subject, <<"[">> \o id \o <<"]">>)

Completion(kind, parsed, message) ==
    [kind |-> kind, email |-> parsed, message |-> message]
NoCompletion == Completion("none", NullEmail, UNDEFINED)

\* A finally block that is skipped when the try block threw.
SessionAfterFinallyOnSuccessOnly(sess, completion) ==
    IF completion.kind = "error" THEN sess ELSE "none"

\* finally { await this.closeConnection(pop3Client) }: QUIT is sent whatever
\* the try block completed with; the session ends whether QUIT is answered
\* +OK or fails (closeConnection ignores its error).
SessionAfterFinally(sess, completion) == "none"

\* A for loop that catches the error of RETR and goes on with the next message.
AfterRetrErrorSkipped == "scan"

\* await pop3Client.RETR(Number(msgNum)) stands in no try block of the for
\* loop: its error leaves searchAndRetrieveEmail
AfterRetrError == "finally"

MailboxIdle ==
    /\ uuid = <<>>
    /\ session = "none"
    /\ client = 0
    /\ opened = 0
    /\ closed = 0
    /\ messageList = <<>>
    /\ cursor = 0
    /\ fetched = <<>>
    /\ pending = NoCompletion
    /\ retrievalResult = NullEmail

\* while (attempts < maxAttempts) { attempts++; ... createPop3Client()
BeginAttempt ==
    /\ rpc = "loop"
    /\ LoopContinues(attempts, maxAttempts)
    /\ attempts' = attempts + 1
    /\ client' = client + 1
    /\ messageList' = <<>>
    /\ cursor' = 0
    /\ fetched' = <<>>
    /\ pending' = NoCompletion
    /\ rpc' = "connect"
    /\ UNCHANGED <<maxAttempts, timeBetweenAttemptsMs, waits, waitedMs, lastError,
                   attemptOutcome, retrieverError>>
    /\ UNCHANGED <<uuid, session, opened, closed, retrievalResult>>
    /\ UNCHANGED <<orchVars, intVars, valVars, hdrVars, entryVars>>

\* connectAndAuthenticate: connect(), USER, PASS.  A failed connect leaves no
\* session; a rejected USER or PASS leaves the session open.
ConnectAndAuthenticate ==
    /\ rpc = "connect"
    /\ \/ /\ session' = "open"
          /\ opened' = opened + 1
          /\ pending' = pending
          /\ rpc' = "search"
       \/ /\ session' = session
          /\ opened' = opened
          /\ pending' = Completion("error", NullEmail, "connect failed")
          /\ rpc' = "finally"
       \/ /\ session' = "open"
          /\ opened' = opened + 1
          /\ pending' = Completion("error", NullEmail, "authentication failed")
          /\ rpc' = "finally"
    /\ UNCHANGED <<maxAttempts, timeBetweenAttemptsMs, attempts, waits, waitedMs,
                   lastError, attemptOutcome, retrieverError>>
    /\ UNCHANGED <<uuid, client, closed, messageList, cursor, fetched,
                   retrievalResult>>
    /\ UNCHANGED <<orchVars, intVars, valVars, hdrVars, entryVars>>

\* const messageList = await pop3Client.UIDL()
Uidl ==
    /\ rpc = "search"
    /\ \/ /\ \E l \in Listings : messageList' = l
          /\ pending' = pending
          /\ rpc' = "scan"
       \/ /\ messageList' = messageList
          /\ pending' = Completion("error", NullEmail, "UIDL failed")
          /\ rpc' = "finally"
    /\ UNCHANGED <<maxAttempts, timeBetweenAttemptsMs, attempts, waits, waitedMs,
                   lastError, attemptOutcome, retrieverError>>
    /\ UNCHANGED <<uuid, session, client, opened, closed, cursor, fetched,
                   retrievalResult>>
    /\ UNCHANGED <<orchVars, intVars, valVars, hdrVars, entryVars>>

\* One iteration of for (const [msgNum] of messageList): RETR, parse, test.
Retr ==
    /\ rpc = "scan"
    /\ cursor < Len(messageList)
    /\ \/ /\ fetched' = Append(fetched, cursor + 1)
          /\ LET parsedEmail == parseEmailAsync(messageList[cursor + 1], cursor + 1)
             IN  IF parsedEmail # NullEmail /\ isEmailForSubjectUuid(parsedEmail, uuid)
                 THEN /\ pending' = Completion("value", parsedEmail, UNDEFINED)
                      /\ rpc' = "finally"
                      /\ cursor' = cursor
                 ELSE /\ pending' = pending
                      /\ rpc' = rpc
                      /\ cursor' = cursor + 1
       \/ /\ fetched' = fetched
          /\ pending' = Completion("error", NullEmail, "RETR failed")
          /\ rpc' = AfterRetrError
          /\ cursor' = cursor
    /\ UNCHANGED <<maxAttempts, timeBetweenAttemptsMs, attempts, waits, waitedMs,
                   lastError, attemptOutcome, retrieverError>>
    /\ UNCHANGED <<uuid, session, client, opened, closed, messageList,
                   retrievalResult>>
    /\ UNCHANGED <<orchVars, intVars, valVars, hdrVars, entryVars>>

\* throw new Error(`Email with UUID ${uuid} not found`)
NotFound ==
    /\ rpc = "scan"
    /\ cursor = Len(messageList)
    /\ pending' = Completion("error", NullEmail, "Email with UUID not found")
    /\ rpc' = "finally"
    /\ UNCHANGED <<maxAttempts, timeBetweenAttemptsMs, attempts, waits, waitedMs,
                   lastError, attemptOutcome, retrieverError>>
    /\ UNCHANGED <<uuid, session, client, opened, closed, messageList, cursor,
                   fetched, retrievalResult>>
    /\ UNCHANGED <<orchVars, intVars, valVars, hdrVars, entryVars>>

\* finally { closeConnection }, then the attempt completes in the loop of
\* retrieveEmailWithRetries: return the email, or record the error and decide
\* whether to wait.
CloseConnection ==
    /\ rpc = "finally"
    /\ session' = SessionAfterFinally(session, pending)
    /\ closed' = IF session = "open" /\ session' = "none" THEN closed + 1 ELSE closed
    /\ IF pending.kind = "value"
       THEN /\ retrievalResult' = pending.email
            /\ attemptOutcome' = "found"
            /\ lastError' = lastError
            /\ rpc' = "returned"
       ELSE /\ retrievalResult' = retrievalResult
            /\ attemptOutcome' = pending.message
            /\ lastError' = NextLastError(lastError, pending.message)
            /\ rpc' = IF ShouldWait(attempts, maxAttempts) THEN "waiting" ELSE "loop"
    /\ UNCHANGED <<maxAttempts, timeBetweenAttemptsMs, attempts, waits, waitedMs,
                   retrieverError>>
    /\ UNCHANGED <<uuid, client, opened, messageList, cursor, fetched, pending>>
    /\ UNCHANGED <<orchVars, intVars, valVars, hdrVars, entryVars>>

(***************************************************************************)
(* EmailInteractor.startEmailInteractions, step by step                    *)
(***************************************************************************)
\* null, for a URL
NoUrl == "null"

\* What EmailLinkExtractor finds in email.htmlContent: the tracking pixel
\* URL or null, the content links, the unsubscribe link or null.
EmailLinks(pixel, content, unsubscribe) ==
    [pixel |-> pixel, content |-> content, unsubscribe |-> unsubscribe]
EmailLinkChoices ==
    {EmailLinks(p, c, u) :
        p \in {NoUrl, "http://mw/track/open/1"},
        c \in {<<>>, <<"http://mw/page">>, <<"http://shop/a", "http://mw/page">>},
        u \in {NoUrl, "http://mw/unsubscribe/1"}}

\* What an HTTP GET can end with: a response with a status code (after the
\* redirects axios followed), or an error without a response.
HttpResponse(status) == [kind |-> "response", status |-> status, message |-> "none"]
HttpFailure(message) == [kind |-> "error", status |-> 0, message |-> message]
HttpOutcomes ==
    {HttpResponse(st) : st \in {200, 204, 304, 404, 500}}
        \cup {HttpFailure(m) : m \in {"timeout of 30000ms exceeded",
                                      "connect ECONNREFUSED",
                                      "Maximum number of redirects exceeded"}}

\* A request that resolves for every status code.
validateStatusAny(status) == TRUE

\* axios.get(url, {timeout, maxRedirects, headers}): no validateStatus option
\* is given, so the promise resolves for a 2xx status and rejects otherwise.
validateStatus(status) == status >= 200 /\ status < 300

\* sendInteractionRequest: { success: true } when the promise resolves;
\* otherwise { success: false, error: error.response ? `HTTP ${status}` : error.message }
sendInteractionRequest(httpOutcome) ==
    IF httpOutcome.kind = "response" /\ validateStatus(httpOutcome.status)
    THEN [success |-> TRUE, error |-> NullMessage]
    ELSE [success |-> FALSE,
          error |-> IF httpOutcome.kind = "response"
                    THEN Message("HTTP", httpOutcome.status, <<>>)
                    ELSE Text(httpOutcome.message)]

Request(url, actionType, httpOutcome) ==
    [url |-> url, actionType |-> actionType, outcome |-> httpOutcome]

NoErrors == [openError |-> NullMessage, clickError |-> NullMessage,
             unsubscribeError |-> NullMessage]

\* const result = { success: false, openSuccess: false, ..., errors: {} }
InitialInteractionResult ==
    [success |-> FALSE, openSuccess |-> FALSE, clickSuccess |-> FALSE,
     unsubscribeSuccess |-> FALSE, errors |-> NoErrors]

\* A simulation that gives up at the first signal that failed.
NextHandlerStopsOnFailure(step, ok) ==
    IF ~ok THEN "count"
    ELSE IF step = "open" THEN "click"
    ELSE IF step = "click" THEN "unsubscribe"
    ELSE "count"

\* The three handlers are awaited one after the other; none of them throws.
NextHandler(step, ok) ==
    IF step = "open" THEN "click"
    ELSE IF step = "click" THEN "unsubscribe"
    ELSE "count"

\* Object.values(result.errors).filter(Boolean)
ErrorValues(errors) ==
    SelectSeq(<<errors.openError, errors.clickError, errors.unsubscribeError>>,
              LAMBDA m : m # NullMessage)

SignalResult(flag) == IF flag THEN "ok" ELSE "failed"

InteractorIdle ==
    /\ ipc = "idle"
    /\ emailLinks = EmailLinks(NoUrl, <<>>, NoUrl)
    /\ requests = <<>>
    /\ result = InitialInteractionResult
    /\ interactorError = NoError

\* handleEmailOpenAndUpdateResult
HandleEmailOpen ==
    /\ ipc = "open"
    /\ IF emailLinks.pixel # NoUrl
       THEN \E h \in HttpOutcomes :
              LET openResult == sendInteractionRequest(h)
              IN  /\ requests' = Append(requests, Request(emailLinks.pixel, "open", h))
                  /\ result' = [result EXCEPT !.openSuccess = openResult.success,
                                              !.errors.openError = openResult.error]
                  /\ ipc' = NextHandler("open", openResult.success)
       ELSE /\ requests' = requests
            /\ result' = [result EXCEPT
                            !.errors.openError = Text("No tracking pixel URL found")]
            /\ ipc' = NextHandler("open", FALSE)
    /\ UNCHANGED <<emailLinks, interactorError>>
    /\ UNCHANGED <<orchVars, retrVars, mboxVars, valVars, hdrVars, entryVars>>

\* handleLinkClickAndUpdateResult: the first content link is the one clicked.
HandleLinkClick ==
    /\ ipc = "click"
    /\ IF Len(emailLinks.content) > 0
       THEN \E h \in HttpOutcomes :
              LET clickResult == sendInteractionRequest(h)
              IN  /\ requests' = Append(requests,
                                        Request(emailLinks.content[1], "click", h))
                  /\ result' = [result EXCEPT !.clickSuccess = clickResult.success,
                                              !.errors.clickError = clickResult.error]
                  /\ ipc' = NextHandler("click", clickResult.success)
       ELSE /\ requests' = requests
            /\ result' = [result EXCEPT
                            !.errors.clickError = Text("No content links found")]
            /\ ipc' = NextHandler("click", FALSE)
    /\ UNCHANGED <<emailLinks, interactorError>>
    /\ UNCHANGED <<orchVars, retrVars, mboxVars, valVars, hdrVars, entryVars>>

\* handleUnsubscribeAndUpdateResult
HandleUnsubscribe ==
    /\ ipc = "unsubscribe"
    /\ IF emailLinks.unsubscribe # NoUrl
       THEN \E h \in HttpOutcomes :
              LET unsubscribeResult == sendInteractionRequest(h)
              IN  /\ requests' = Append(requests,
                                        Request(emailLinks.unsubscribe, "unsubscribe", h))
                  /\ result' = [result EXCEPT
                                  !.unsubscribeSuccess = unsubscribeResult.success,
                                  !.errors.unsubscribeError = unsubscribeResult.error]
                  /\ ipc' = NextHandler("unsubscribe", unsubscribeResult.success)
       ELSE /\ requests' = requests
            /\ result' = [result EXCEPT
                            !.errors.unsubscribeError = Text("No unsubscribe link found")]
            /\ ipc' = NextHandler("unsubscribe", FALSE)
    /\ UNCHANGED <<emailLinks, interactorError>>
    /\ UNCHANGED <<orchVars, retrVars, mboxVars, valVars, hdrVars, entryVars>>

\* result.success = successCount >= 2; startEmailInteractions then throws
\* new Error(the joined errors) unless result.success.
FinishInteractions ==
    /\ ipc = "count"
    /\ LET success == InteractionSuccess(SignalResult(result.openSuccess),
                                         SignalResult(result.clickSuccess),
                                         SignalResult(result.unsubscribeSuccess))
       IN  /\ result' = [result EXCEPT !.success = success]
           /\ IF success
              THEN /\ ipc' = "returned"
                   /\ interactorError' = interactorError
              ELSE /\ ipc' = "threw"
                   /\ interactorError' = NewError(Join(ErrorValues(result.errors)))
    /\ UNCHANGED <<emailLinks, requests>>
    /\ UNCHANGED <<orchVars, retrVars, mboxVars, valVars, hdrVars, entryVars>>

(***************************************************************************)
(* EmailInteractionValidator.validateInteractionRecords, step by step      *)
(***************************************************************************)
\* What a COUNT(*) query of MailwizzInteractionStatsDbConnector ends with.
QueryOutcomes == {"rows", "norows", "dberror"}

\* hasCampaign...Records: resultRows[0].count > 0, and false when the query
\* throws (the connector logs the error and returns false).
hasCampaignRecords(queryOutcome) == queryOutcome = "rows"

Stores == {"open", "click", "unsubscribe", "bounce"}

\* A store's tally: the queries made to it, whether one reported a record and
\* how many of them threw.
Queried(tally, queryOutcome) ==
    [n |-> tally.n + 1, found |-> tally.found \/ hasCampaignRecords(queryOutcome),
     threw |-> tally.threw + (IF queryOutcome = "dberror" THEN 1 ELSE 0)]

NoValidationErrors == [openError |-> NullMessage, clickError |-> NullMessage,
                       unsubscribeError |-> NullMessage, bounceError |-> NullMessage]

\* const result = { success: false, openRecordsExist: false, ..., errors: {} }
InitialValidationResult ==
    [success |-> FALSE, openRecordsExist |-> FALSE, clickRecordsExist |-> FALSE,
     unsubscribeRecordsExist |-> FALSE, bounceRecordsExist |-> FALSE,
     errors |-> NoValidationErrors]

BounceResult(exists, message) == [exists |-> exists, error |-> message]
NoBounceResult == BounceResult(FALSE, NullMessage)

\* while (attempts < maxAttempts) of validateBounceRecordsWithRetry
BounceLoopContinues(att, maxAtt) == att < maxAtt

\* A bounce loop that waits after every attempt, the last included.
BounceShouldWaitAlways(att, maxAtt) == TRUE

\* if (attempts < maxAttempts) await Delay.wait(delayBetweenAttemptsMs)
BounceShouldWait(att, maxAtt) == att < maxAtt

\* Object.values(validationResult.errors).filter(Boolean)
ValidationErrorValues(errors) ==
    SelectSeq(<<errors.openError, errors.clickError, errors.unsubscribeError,
                errors.bounceError>>,
              LAMBDA m : m # NullMessage)

ValidatorEntry ==
    /\ vpc = "open"
    /\ queries = [st \in Stores |-> [n |-> 0, found |-> FALSE, threw |-> 0]]
    /\ vresult = InitialValidationResult
    /\ bounceAttempts = 0
    /\ bounceWaits = 0
    /\ bounceWaitedMs = 0
    /\ bounceLastError = UNDEFINED
    /\ bounceResult = NoBounceResult
    /\ validatorError = NoError

ValidatorIdle ==
    /\ vpc = "idle"
    /\ queries = [st \in Stores |-> [n |-> 0, found |-> FALSE, threw |-> 0]]
    /\ vresult = InitialValidationResult
    /\ bounceAttempts = 0
    /\ bounceWaits = 0
    /\ bounceWaitedMs = 0
    /\ bounceLastError = UNDEFINED
    /\ bounceResult = NoBounceResult
    /\ validatorError = NoError

\* result.openRecordsExist = await ...hasCampaignOpenRecords(campaignId)
CheckOpenRecords ==
    /\ vpc = "open"
    /\ \E q \in QueryOutcomes :
        /\ queries' = [queries EXCEPT !["open"] = Queried(@, q)]
        /\ vresult' = [vresult EXCEPT
                         !.openRecordsExist = hasCampaignRecords(q),
                         !.errors.openError = IF hasCampaignRecords(q)
                                              THEN NullMessage ELSE OpenRecordsError]
    /\ vpc' = "click"
    /\ UNCHANGED <<bounceAttempts, bounceWaits, bounceWaitedMs, bounceLastError,
                   bounceResult, validatorError>>
    /\ UNCHANGED <<orchVars, retrVars, mboxVars, intVars, hdrVars, entryVars>>

\* result.clickRecordsExist = await ...hasCampaignUrlClickRecords(campaignId)
CheckClickRecords ==
    /\ vpc = "click"
    /\ \E q \in QueryOutcomes :
        /\ queries' = [queries EXCEPT !["click"] = Queried(@, q)]
        /\ vresult' = [vresult EXCEPT
                         !.clickRecordsExist = hasCampaignRecords(q),
                         !.errors.clickError = IF hasCampaignRecords(q)
                                               THEN NullMessage ELSE ClickRecordsError]
    /\ vpc' = "unsubscribe"
    /\ UNCHANGED <<bounceAttempts, bounceWaits, bounceWaitedMs, bounceLastError,
                   bounceResult, validatorError>>
    /\ UNCHANGED <<orchVars, retrVars, mboxVars, intVars, hdrVars, entryVars>>

\* result.unsubscribeRecordsExist = await ...hasCampaignUnsubscribeRecords(campaignId);
\* then validateBounceRecordsWithRetry(campaignId) is entered.
CheckUnsubscribeRecords ==
    /\ vpc = "unsubscribe"
    /\ \E q \in QueryOutcomes :
        /\ queries' = [queries EXCEPT !["unsubscribe"] = Queried(@, q)]
        /\ vresult' = [vresult EXCEPT
                         !.unsubscribeRecordsExist = hasCampaignRecords(q),
                         !.errors.unsubscribeError =
                             IF hasCampaignRecords(q)
                             THEN NullMessage ELSE UnsubscribeRecordsError]
    /\ vpc' = "bounce"
    /\ UNCHANGED <<bounceAttempts, bounceWaits, bounceWaitedMs, bounceLastError,
                   bounceResult, validatorError>>
    /\ UNCHANGED <<orchVars, retrVars, mboxVars, intVars, hdrVars, entryVars>>

\* One iteration of the bounce loop up to the decision to wait.  The
\* connector never throws, so the catch of the loop leaves lastError alone.
BounceAttempt ==
    /\ vpc = "bounce"
    /\ BounceLoopContinues(bounceAttempts, DEFAULT_BOUNCE_MAX_ATTEMPTS)
    /\ bounceAttempts' = bounceAttempts + 1
    /\ \E q \in QueryOutcomes :
        /\ queries' = [queries EXCEPT !["bounce"] = Queried(@, q)]
        /\ IF hasCampaignRecords(q)
           THEN /\ bounceResult' = BounceResult(TRUE, NullMessage)
                /\ vpc' = "finish"
           ELSE /\ bounceResult' = bounceResult
                /\ vpc' = IF BounceShouldWait(bounceAttempts + 1,
                                              DEFAULT_BOUNCE_MAX_ATTEMPTS)
                          THEN "bounce_wait" ELSE "bounce"
    /\ UNCHANGED <<vresult, bounceWaits, bounceWaitedMs, bounceLastError,
                   validatorError>>
    /\ UNCHANGED <<orchVars, retrVars, mboxVars, intVars, hdrVars, entryVars>>

\* await Delay.wait(delayBetweenAttemptsMs)
BounceWait ==
    /\ vpc = "bounce_wait"
    /\ bounceWaits' = bounceWaits + 1
    /\ bounceWaitedMs' = bounceWaitedMs + DEFAULT_BOUNCE_RETRY_DELAY_MS
    /\ vpc' = "bounce"
    /\ UNCHANGED <<queries, vresult, bounceAttempts, bounceLastError, bounceResult,
                   validatorError>>
    /\ UNCHANGED <<orchVars, retrVars, mboxVars, intVars, hdrVars, entryVars>>

\* return { exists: false, error: `No bounce records found after ...` }
BounceExhausted ==
    /\ vpc = "bounce"
    /\ ~BounceLoopContinues(bounceAttempts, DEFAULT_BOUNCE_MAX_ATTEMPTS)
    /\ bounceResult' = BounceResult(FALSE, BounceError(DEFAULT_BOUNCE_MAX_ATTEMPTS,
                                                       bounceLastError))
    /\ vpc' = "finish"
    /\ UNCHANGED <<queries, vresult, bounceAttempts, bounceWaits, bounceWaitedMs,
                   bounceLastError, validatorError>>
    /\ UNCHANGED <<orchVars, retrVars, mboxVars, intVars, hdrVars, entryVars>>

\* result.bounceRecordsExist = bounceResult.exists; result.success =
\* successCount == 4; validateInteractionRecords then throws new Error(the
\* joined errors) unless result.success.
FinishValidation ==
    /\ vpc = "finish"
    /\ LET withBounce ==
              [vresult EXCEPT
                 !.bounceRecordsExist = bounceResult.exists,
                 !.errors.bounceError =
                     IF bounceResult.exists THEN NullMessage
                     ELSE IF bounceResult.error # NullMessage THEN bounceResult.error
                     ELSE Text("No bounce records found in database")]
           success == ValidationSuccess(withBounce.openRecordsExist,
                                        withBounce.clickRecordsExist,
                                        withBounce.unsubscribeRecordsExist,
                                        withBounce.bounceRecordsExist)
       IN  /\ vresult' = [withBounce EXCEPT !.success = success]
           /\ IF success
              THEN /\ vpc' = "returned"
                   /\ validatorError' = validatorError
              ELSE /\ vpc' = "threw"
                   /\ validatorError' =
                        NewError(Join(ValidationErrorValues(withBounce.errors)))
    /\ UNCHANGED <<queries, bounceAttempts, bounceWaits, bounceWaitedMs,
                   bounceLastError, bounceResult>>
    /\ UNCHANGED <<orchVars, retrVars, mboxVars, intVars, hdrVars, entryVars>>

(***************************************************************************)
(* EmailHeaderTester.  Header values and addresses are sequences of        *)
(* characters; the empty sequence is the missing (or empty) value.         *)
(***************************************************************************)
Min(set) == CHOOSE x \in set : \A y \in set : x <= y
Max(set) == CHOOSE x \in set : \A y \in set : x >= y

\* String.prototype.toLowerCase, on the letters the inputs use
LowerChar(ch) ==
    CASE ch = "A" -> "a"
      [] ch = "B" -> "b"
      [] ch = "C" -> "c"
      [] ch = "M" -> "m"
      [] ch = "O" -> "o"
      [] ch = "T" -> "t"
      [] ch = "U" -> "u"
      [] ch = "X" -> "x"
      [] OTHER -> ch
toLowerCase(str) == [i \in 1..Len(str) |-> LowerChar(str[i])]

\* String.prototype.indexOf(ch), 0-based, -1 when absent
indexOf(str, ch) ==
    LET at == {i \in 1..Len(str) : str[i] = ch}
    IN  IF at = {} THEN -1 ELSE Min(at) - 1

\* String.prototype.trim
trim(str) ==
    LET inked == {i \in 1..Len(str) : str[i] # " "}
    IN  IF inked = {} THEN <<>> ELSE SubSeq(str, Min(inked), Max(inked))

\* String.prototype.substring(start, end), 0-based, arguments swapped when
\* start > end
substring(str, start, end) ==
    LET clamp(k) == IF k < 0 THEN 0 ELSE IF k > Len(str) THEN Len(str) ELSE k
        lo == IF clamp(start) <= clamp(end) THEN clamp(start) ELSE clamp(end)
        hi == IF clamp(start) <= clamp(end) THEN clamp(end) ELSE clamp(start)
    IN  SubSeq(str, lo + 1, hi)

startsWith(str, ch) == Len(str) > 0 /\ str[1] = ch
endsWith(str, ch) == Len(str) > 0 /\ str[Len(str)] = ch

\* str.split(sep)[0]
splitFirst(str, sep) ==
    IF indexOf(str, sep) = -1 THEN str ELSE substring(str, 0, indexOf(str, sep))

\* str.split(sep)[1], for a string that contains sep
splitSecond(str, sep) ==
    LET rest == substring(str, indexOf(str, sep) + 1, Len(str))
    IN  splitFirst(rest, sep)

\* headerValue.match(/<([^>]+)>/): the positions of the leftmost "<" that is
\* followed by at least one character other than ">" and then by a ">"
angleMatches(str) ==
    {i \in 1..Len(str) :
        /\ str[i] = "<"
        /\ i + 1 <= Len(str)
        /\ str[i + 1] # ">"
        /\ \E j \in (i + 2)..Len(str) : str[j] = ">"}

angleGroup(str) ==
    LET i == Min(angleMatches(str))
        j == Min({k \in (i + 2)..Len(str) : str[k] = ">"})
    IN  SubSeq(str, i + 1, j - 1)

\* extractEmailAddress
extractEmailAddress(headerValue) ==
    IF angleMatches(headerValue) # {}
    THEN trim(angleGroup(headerValue))
    ELSE IF Includes(headerValue, <<"@">>) /\ ~Includes(headerValue, <<" ">>)
    THEN trim(headerValue)
    ELSE <<>>

\* extractName
extractName(headerValue) ==
    LET angleBracketIndex == indexOf(headerValue, "<")
        name == trim(substring(headerValue, 0, angleBracketIndex))
    IN  IF angleBracketIndex > 0
        THEN IF startsWith(name, "\"") /\ endsWith(name, "\"")
             THEN substring(name, 1, Len(name) - 1)
             ELSE name
        ELSE <<>>

\* a || b on strings
OrElse(a, b) == IF a # <<>> THEN a ELSE b

CheckResult(success, message) == [success |-> success, error |-> message]

\* checkSenderHeader
checkSenderHeader(em, expectedEmail) ==
    LET senderHeader == OrElse(em.headers["sender"], em.headers["Sender"])
        extractedEmail == OrElse(extractEmailAddress(senderHeader), senderHeader)
    IN  IF senderHeader = <<>>
        THEN CheckResult(FALSE, Text("Sender header is missing"))
        ELSE IF toLowerCase(extractedEmail) # toLowerCase(expectedEmail)
        THEN CheckResult(FALSE, Message("Sender header email does not match expected",
                                        0, <<extractedEmail, expectedEmail>>))
        ELSE CheckResult(TRUE, NullMessage)

\* const expectedNameWithoutTLD = expectedName.split('.')[0]
expectedNameWithoutTLD(expectedName) == splitFirst(expectedName, ".")

\* The part checkFromHeader and checkReplyToHeader share, from the extraction
\* of the address on; `header` is the header's name.
checkNameAndAddress(header, value, expectedName, expectedEmail) ==
    LET extractedEmail == extractEmailAddress(value)
        extractedName == extractName(value)
    IN  IF extractedEmail = <<>>
        THEN CheckResult(FALSE, Message("header doesn't contain a valid email address",
                                        0, <<header, value>>))
        ELSE IF toLowerCase(extractedEmail) # toLowerCase(expectedEmail)
        THEN CheckResult(FALSE, Message("header email does not match expected",
                                        0, <<header, extractedEmail, expectedEmail>>))
        ELSE IF /\ extractedName # <<>>
                /\ toLowerCase(extractedName) # toLowerCase(expectedName)
                /\ toLowerCase(extractedName) #
                       toLowerCase(expectedNameWithoutTLD(expectedName))
        THEN CheckResult(FALSE, Message("header name does not match expected name",
                                        0, <<header, extractedName, expectedName,
                                             expectedNameWithoutTLD(expectedName)>>))
        ELSE CheckResult(TRUE, NullMessage)

\* checkFromHeader
checkFromHeader(em, expectedName, expectedEmail) ==
    LET fromValue == OrElse(em.from, OrElse(em.headers["from"], em.headers["From"]))
    IN  IF fromValue = <<>>
        THEN CheckResult(FALSE, Text("From header is missing"))
        ELSE checkNameAndAddress(<<"F", "r", "o", "m">>, fromValue, expectedName, expectedEmail)

\* checkReplyToHeader
checkReplyToHeader(em, expectedName, expectedEmail) ==
    LET replyToHeader ==
            OrElse(em.headers["reply-to"],
                   OrElse(em.headers["Reply-To"],
                          OrElse(em.headers["replyto"], em.headers["ReplyTo"])))
    IN  IF replyToHeader = <<>>
        THEN CheckResult(FALSE, Text("Reply-To header is missing"))
        ELSE checkNameAndAddress(<<"R", "e", "p", "l", "y", "-", "T", "o">>,
                                 replyToHeader, expectedName, expectedEmail)

\* validateEmailHeaders
validateEmailHeaders(em, fromEmail) ==
    LET expectedEmail == fromEmail
        expectedName == splitSecond(expectedEmail, "@")
        senderResult == checkSenderHeader(em, expectedEmail)
        fromResult == checkFromHeader(em, expectedName, expectedEmail)
        replyToResult == checkReplyToHeader(em, expectedName, expectedEmail)
    IN  [success |-> HeaderSuccess(senderResult.success, fromResult.success,
                                   replyToResult.success),
         hasSender |-> senderResult.success,
         hasFrom |-> fromResult.success,
         hasReplyTo |-> replyToResult.success,
         errors |-> [senderError |-> senderResult.error,
                     fromError |-> fromResult.error,
                     replyToError |-> replyToResult.error]]

\* Object.values(headerTestResult.errors).filter(Boolean)
HeaderErrorValues(errors) ==
    SelectSeq(<<errors.senderError, errors.fromError, errors.replyToError>>,
              LAMBDA m : m # NullMessage)

\* The inputs of testEmailHeaders.
Address(local, domain) == local \o <<"@">> \o domain
DomainAbCo == <<"a", "b", ".", "c", "o">>
DomainMAbCo == <<"m", ".", "a", "b", ".", "c", "o">>
FromEmails == {Address(<<"t">>, DomainAbCo), Address(<<"t">>, DomainMAbCo)}

\* A header value as a mail client writes it: the bare address, or the
\* display name, quoted or not, followed by the address in angle brackets.
HeaderValue(name, quoted, address) ==
    [name |-> name, quoted |-> quoted, address |-> address,
     text |-> IF name = <<>> THEN address
              ELSE (IF quoted THEN <<"\"">> \o name \o <<"\"">> ELSE name)
                       \o <<" ", "<">> \o address \o <<">">>]
MissingHeader == [name |-> <<>>, quoted |-> FALSE, address |-> <<>>, text |-> <<>>]

DisplayNames ==
    {<<>>, <<"a", "b">>, DomainAbCo, <<"A", "B", ".", "c", "o">>, <<"x", "y">>,
     <<"m">>, <<"m", ".", "a", "b">>, DomainMAbCo}
Addresses ==
    {Address(<<"t">>, DomainAbCo), Address(<<"T">>, DomainAbCo),
     Address(<<"x">>, DomainAbCo), Address(<<"t">>, DomainMAbCo)}
HeaderValues ==
    {HeaderValue(nm, FALSE, ad) : nm \in DisplayNames, ad \in Addresses}
        \cup {HeaderValue(<<"a", "b">>, TRUE, Address(<<"t">>, DomainAbCo)),
              HeaderValue(<<"m">>, TRUE, Address(<<"t">>, DomainMAbCo)),
              MissingHeader}
SenderValues ==
    {HeaderValue(<<>>, FALSE, ad) : ad \in Addresses}
        \cup {HeaderValue(<<"a", "b">>, FALSE, Address(<<"t">>, DomainAbCo)),
              MissingHeader}

HeaderKeys == {"sender", "Sender", "from", "From", "reply-to", "Reply-To",
               "replyto", "ReplyTo"}

\* The names of the three headers as a message may write them.
LowerNames == [sender |-> "sender", from |-> "from", replyTo |-> "reply-to"]
TitleNames == [sender |-> "Sender", from |-> "From", replyTo |-> "Reply-To"]
UpperNames == [sender |-> "SENDER", from |-> "FROM", replyTo |-> "REPLY-TO"]
HeaderNameChoices == {LowerNames, TitleNames, UpperNames}

\* The key under which simpleParser files a header in parsed.headers: the
\* header's name in lower case.
HeaderKeyAsWritten(name) == name

HeaderKey(name) ==
    CASE name \in {"sender", "Sender", "SENDER"} -> "sender"
      [] name \in {"from", "From", "FROM"} -> "from"
      [] name \in {"reply-to", "Reply-To", "REPLY-TO"} -> "reply-to"
      [] OTHER -> name

\* convertHeadersToRecord: result[key] = value.text for every key of
\* parsed.headers; a key the record does not have reads as the empty value.
convertHeadersToRecord(lines) ==
    [k \in HeaderKeys |->
        IF \E i \in 1..Len(lines) : HeaderKey(lines[i].name) = k
        THEN lines[Max({i \in 1..Len(lines) : HeaderKey(lines[i].name) = k})].text
        ELSE <<>>]

\* The ParsedEmail as parseEmailAsync builds it from a message with these
\* three headers: `from` is the formatted From address.
ParsedHeaders(names, senderValue, fromValue, replyToValue) ==
    [from |-> fromValue.text,
     headers |-> convertHeadersToRecord(
                    <<[name |-> names.sender, text |-> senderValue.text],
                      [name |-> names.from, text |-> fromValue.text],
                      [name |-> names.replyTo, text |-> replyToValue.text]>>)]
NoParsedHeaders == ParsedHeaders(LowerNames, MissingHeader, MissingHeader, MissingHeader)

InitialHeaderResult ==
    [success |-> FALSE, hasSender |-> FALSE, hasFrom |-> FALSE, hasReplyTo |-> FALSE,
     errors |-> [senderError |-> NullMessage, fromError |-> NullMessage,
                 replyToError |-> NullMessage]]

HeadersIdle ==
    /\ hpc = "idle"
    /\ email = NoParsedHeaders
    /\ headerNames = LowerNames
    /\ from_email = <<>>
    /\ hresult = InitialHeaderResult
    /\ headerError = NoError

\* testEmailHeaders: validateEmailHeaders, then throw new Error(the joined
\* errors) unless headerTestResult.success.  Nothing in it is awaited.
TestEmailHeadersCall ==
    /\ hpc = "call"
    /\ LET headerTestResult == validateEmailHeaders(email, from_email)
       IN  /\ hresult' = headerTestResult
           /\ IF headerTestResult.success
              THEN /\ hpc' = "returned"
                   /\ headerError' = headerError
              ELSE /\ hpc' = "threw"
                   /\ headerError' =
                        NewError(Join(HeaderErrorValues(headerTestResult.errors)))
    /\ UNCHANGED <<email, headerNames, from_email>>
    /\ UNCHANGED <<orchVars, retrVars, mboxVars, intVars, valVars, entryVars>>

(***************************************************************************)
(* AutoRunnerService and the auto-runner entry point.  A run of            *)
(* runForDeliveryServer is taken as a whole here: it is started, and it    *)
(* completes by returning or by throwing.                                  *)
(***************************************************************************)
Digit(ch) ==
    CASE ch = "0" -> 0 [] ch = "1" -> 1 [] ch = "2" -> 2 [] ch = "3" -> 3
      [] ch = "4" -> 4 [] ch = "5" -> 5 [] ch = "6" -> 6 [] ch = "7" -> 7
      [] ch = "8" -> 8 [] ch = "9" -> 9 [] OTHER -> -1

RECURSIVE DigitsValue(_, _)
DigitsValue(str, k) ==
    IF k = 0 THEN 0 ELSE 10 * DigitsValue(str, k - 1) + Digit(str[k])

\* parseInt(string): the number its leading digits write, NaN without any
NaN == [nan |-> TRUE, value |-> 0]
parseInt(str) ==
    LET k == Max({j \in 0..Len(str) : \A i \in 1..j : Digit(str[i]) >= 0})
    IN  IF k = 0 THEN NaN ELSE [nan |-> FALSE, value |-> DigitsValue(str, k)]

\* process.env.DELAY_BETWEEN_RUNS_MINUTES: not set, or set to some text
EnvValue(set, text) == [set |-> set, text |-> text]
Unset == EnvValue(FALSE, <<>>)
EnvValues ==
    {Unset, EnvValue(TRUE, <<>>), EnvValue(TRUE, <<"5">>),
     EnvValue(TRUE, <<"1", "h">>), EnvValue(TRUE, <<"h", "1">>)}
EnvironmentUnset == DELAY_BETWEEN_RUNS_MINUTES = Unset

DefaultDelayBetweenRunsMinutes == 60

\* const minutesToWait = process.env.DELAY_BETWEEN_RUNS_MINUTES
\*     ? parseInt(process.env.DELAY_BETWEEN_RUNS_MINUTES) : 60;
\* an empty string is falsy
minutesToWait(env) ==
    IF env.set /\ env.text # <<>>
    THEN parseInt(env.text)
    ELSE [nan |-> FALSE, value |-> DefaultDelayBetweenRunsMinutes]

\* logger.info(`... ${new Date(Date.now() + minutesToWait * 60000).toISOString()}`):
\* toISOString throws a RangeError on an invalid date, and the statement
\* stands outside the try/catch of the loop
AfterCycle(env) == IF minutesToWait(env).nan THEN "rejected" ELSE "waiting"

RECURSIVE AsRows(_)
\* The rows of a result set, one per server id
AsRows(ids) ==
    IF ids = {} THEN <<>> ELSE <<Min(ids)>> \o AsRows(ids \ {Min(ids)})

\* getActiveServersUpdatedInLastHour: the active servers whose configuration
\* changed within the last hour
getActiveServersUpdatedInLastHour(status, updated) ==
    AsRows({id \in ServerIds : status[id] = "active" /\ id \in updated})

\* getActiveServersNotTestedInLast24Hours: the active servers with no
\* verdict recorded in the last 24 hours
getActiveServersNotTestedInLast24Hours(status, tested) ==
    AsRows({id \in ServerIds : status[id] = "active" /\ id \notin tested})

\* ensurePool: if (!this.pool) this.pool = mysql.createPool(...)
ensurePool(p) == IF p = "null" THEN "open" ELSE p

\* pool.query on the pool ensurePool returned: a pool that is ending rejects
\* every query
QueryOutcomesOn(p) == IF p = "ending" THEN {"error"} ELSE {"rows", "error"}

\* A for loop that does not await the run it started.
AfterStartNotAwaited == "loop"

\* await this.tester.runForDeliveryServer(server.server_id)
AfterStart == "awaitRun"

\* A catch block that rethrows.
AfterRunEndRethrows(kind) == IF kind = "threw" THEN "threw" ELSE "loop"

\* try { await run } catch (error) { log }: the loop goes on either way
AfterRunEnd(kind) == "loop"

RunOutcome(id, kind) == [server |-> id, kind |-> kind]

Running == sig # "exited"

ScannerIdle ==
    /\ spc = "idle"
    /\ cycles = 0
    /\ last_updated_recent = {}
    /\ tested_recent = {}
    /\ serversToTest = <<>>
    /\ scanIndex = 0
    /\ started = <<>>
    /\ inFlight = 0
    /\ runOutcomes = <<>>
    /\ pool = "null"
    /\ sig = "none"

orchRunVars == <<tests_table, group_table, pc, runId, serverId, error, calls,
                 outcome, rowsAtStart, statusAtStart, signals, successes, audit>>

\* main: await autoRunner.runAutoTestCycle(), up to the first query.  Between
\* two cycles an hour passes and servers may have been reconfigured.
BeginCycle ==
    /\ Running
    /\ spc \in {"idle", "waiting"}
    /\ cycles < MaxCycles
    /\ cycles' = cycles + 1
    /\ spc' = "fetchUpdated"
    /\ serversToTest' = <<>>
    /\ scanIndex' = 0
    /\ started' = <<>>
    /\ runOutcomes' = <<>>
    /\ IF spc = "idle"
       THEN UNCHANGED <<last_updated_recent, tested_recent>>
       ELSE /\ last_updated_recent' \in SUBSET ServerIds
            /\ tested_recent' \in SUBSET tested_recent
    /\ UNCHANGED <<inFlight, pool, sig>>
    /\ UNCHANGED <<orchVars, retrVars, stageVars, notScanVars>>

\* serversUpdatedInLastHour = await getActiveServersUpdatedInLastHour(); a
\* failed query is logged and leaves the list empty
FetchUpdatedInLastHour ==
    /\ Running
    /\ spc = "fetchUpdated"
    /\ pool' = ensurePool(pool)
    /\ \E q \in QueryOutcomesOn(ensurePool(pool)) :
          serversToTest' =
              IF q = "rows"
              THEN getActiveServersUpdatedInLastHour(mw_delivery_server,
                                                     last_updated_recent)
              ELSE <<>>
    /\ spc' = "fetchNotTested"
    /\ UNCHANGED <<cycles, last_updated_recent, tested_recent, scanIndex, started,
                   inFlight, runOutcomes, sig>>
    /\ UNCHANGED <<orchVars, retrVars, stageVars, notScanVars>>

\* serversNotTestedInLast24Hours = await getActiveServersNotTestedInLast24Hours();
\* serversToTest = [...serversUpdatedInLastHour, ...serversNotTestedInLast24Hours];
\* return if it is empty
FetchNotTestedInLast24Hours ==
    /\ Running
    /\ spc = "fetchNotTested"
    /\ pool' = ensurePool(pool)
    /\ \E q \in QueryOutcomesOn(ensurePool(pool)) :
          LET serversNotTestedInLast24Hours ==
                  IF q = "rows"
                  THEN getActiveServersNotTestedInLast24Hours(mw_delivery_server,
                                                              tested_recent)
                  ELSE <<>>
              combined == serversToTest \o serversNotTestedInLast24Hours
          IN  /\ serversToTest' = combined
              /\ spc' = IF Len(combined) = 0
                        THEN AfterCycle(DELAY_BETWEEN_RUNS_MINUTES)
                        ELSE "loop"
              /\ scanIndex' = IF Len(combined) = 0 THEN 0 ELSE 1
    /\ UNCHANGED <<cycles, last_updated_recent, tested_recent, started, inFlight,
                   runOutcomes, sig>>
    /\ UNCHANGED <<orchVars, retrVars, stageVars, notScanVars>>

\* for (const server of serversToTest) { ... runForDeliveryServer(server.server_id)
StartServerRun ==
    /\ Running
    /\ spc = "loop"
    /\ scanIndex <= Len(serversToTest)
    /\ started' = Append(started, serversToTest[scanIndex])
    /\ inFlight' = inFlight + 1
    /\ pool' = ensurePool(pool)
    /\ spc' = AfterStart
    /\ scanIndex' = IF AfterStart = "loop" THEN scanIndex + 1 ELSE scanIndex
    /\ UNCHANGED <<cycles, last_updated_recent, tested_recent, serversToTest,
                   runOutcomes, sig>>
    /\ UNCHANGED <<orchVars, retrVars, stageVars, notScanVars>>

\* The run in flight completes.  A run that returns has written its row; a
\* run that throws has written its row and set the server to inactive (with
\* last_updated = NOW()), unless those writes failed.
ServerRunEnds ==
    /\ Running
    /\ inFlight > 0
    /\ Len(runOutcomes) < Len(started)
    /\ LET id == started[Len(runOutcomes) + 1]
       IN  \E kind \in {"returned", "threw"} :
             /\ runOutcomes' = Append(runOutcomes, RunOutcome(id, kind))
             /\ inFlight' = inFlight - 1
             /\ IF spc = "awaitRun"
                THEN /\ spc' = AfterRunEnd(kind)
                     /\ scanIndex' = scanIndex + 1
                ELSE UNCHANGED <<spc, scanIndex>>
             /\ \/ /\ tested_recent' = tested_recent \cup {id}
                   /\ IF kind = "threw"
                      THEN /\ mw_delivery_server' =
                                updateDeliveryServerStatus(mw_delivery_server, id, "inactive")
                           /\ last_updated_recent' = last_updated_recent \cup {id}
                      ELSE UNCHANGED <<mw_delivery_server, last_updated_recent>>
                \/ /\ kind = "threw"
                   /\ UNCHANGED <<mw_delivery_server, last_updated_recent, tested_recent>>
    /\ UNCHANGED <<cycles, serversToTest, started, pool, sig>>
    /\ UNCHANGED <<orchRunVars, retrVars, stageVars, notScanVars>>

\* The for loop is over: runAutoTestCycle returns, main logs the time of the
\* next run and waits minutesToWait before the next cycle.
FinishCycle ==
    /\ Running
    /\ spc = "loop"
    /\ scanIndex > Len(serversToTest)
    /\ spc' = AfterCycle(DELAY_BETWEEN_RUNS_MINUTES)
    /\ UNCHANGED <<cycles, last_updated_recent, tested_recent, serversToTest,
                   scanIndex, started, inFlight, runOutcomes, pool, sig>>
    /\ UNCHANGED <<orchVars, retrVars, stageVars, notScanVars>>

\* process.on('SIGINT'): await DbConnector.instance.close().  With no pool
\* close() returns at once and process.exit(0) follows; otherwise
\* pool.end() is awaited while the main loop goes on.
SigInt ==
    /\ sig = "none"
    /\ sig' = IF pool = "null" THEN "exited" ELSE "closing"
    /\ pool' = IF pool = "null" THEN "null" ELSE "ending"
    /\ UNCHANGED <<spc, cycles, last_updated_recent, tested_recent, serversToTest,
                   scanIndex, started, inFlight, runOutcomes>>
    /\ UNCHANGED <<orchVars, retrVars, stageVars, notScanVars>>

\* pool.end() has completed: close() sets this.pool = null and returns.  (A
\* pool.end() that fails rejects the handler, and the unhandled rejection
\* ends the process as well.)
PoolEnded ==
    /\ sig = "closing"
    /\ pool' = "null"
    /\ sig' = "closed"
    /\ UNCHANGED <<spc, cycles, last_updated_recent, tested_recent, serversToTest,
                   scanIndex, started, inFlight, runOutcomes>>
    /\ UNCHANGED <<orchVars, retrVars, stageVars, notScanVars>>

\* The handler resumes after await close() and calls process.exit(0); the
\* continuations of the main loop that were already queued run before it.
ProcessExit ==
    /\ sig = "closed"
    /\ sig' = "exited"
    /\ UNCHANGED <<spc, cycles, last_updated_recent, tested_recent, serversToTest,
                   scanIndex, started, inFlight, runOutcomes, pool>>
    /\ UNCHANGED <<orchVars, retrVars, stageVars, notScanVars>>

\* main().catch: the rejection of main is logged, DbConnector.instance.close()
\* is awaited and process.exit(1) ends the process.
MainRejected ==
    /\ Running
    /\ spc = "rejected"
    /\ spc' = "exited"
    /\ pool' = "null"
    /\ sig' = "exited"
    /\ UNCHANGED <<cycles, last_updated_recent, tested_recent, serversToTest,
                   scanIndex, started, inFlight, runOutcomes>>
    /\ UNCHANGED <<orchVars, retrVars, stageVars, notScanVars>>

(***************************************************************************)
(* The on-demand request handlers: the TestDeliveryServer lambda and the   *)
(* MailwizzTesterController.  The run is taken as a whole, as above.       *)
(***************************************************************************)
\* event.queryStringParameters: null, or an object that has the server id
\* parameter with some text or does not have it
QueryString(present, hasId, text) ==
    [present |-> present, hasId |-> hasId, text |-> text]
QueryStrings ==
    {QueryString(FALSE, FALSE, <<>>), QueryString(TRUE, FALSE, <<>>),
     QueryString(TRUE, TRUE, <<>>)}
        \cup {QueryString(TRUE, TRUE, t) :
                 t \in {<<"4", "1">>, <<"4", "2">>, <<"0">>, <<"7">>,
                        <<"a", "b">>, <<"4", "2", "x">>}}

\* JavaScript truthiness of a number | undefined, and of a string | undefined
Undefined == [nan |-> TRUE, value |-> -1]
Falsy(num) == num.nan \/ num.value = 0

NaNNotFoundError == Err("Delivery server with ID NaN not found", 0, <<>>)
TypeError == [name |-> "TypeError",
              message |-> Text("Cannot read properties of null")]

\* How a run of runForDeliveryServer(id) can end
RunEndings(status, id) ==
    IF id.nan THEN {[kind |-> "threw", error |-> NaNNotFoundError]}
    ELSE IF id.value \notin ServerIds \/ status[id.value] = "absent"
    THEN {[kind |-> "threw", error |-> NotFoundError(id.value)],
          [kind |-> "threw", error |-> DbError]}
    ELSE {[kind |-> "returned", error |-> NoError]}
            \cup {[kind |-> "threw", error |-> e] :
                     e \in {DbError, NoCampaignIdError,
                            RetrievalFailedError(DefaultMaxAttempts, "not_found")}}

Response(statusCode, message) == [statusCode |-> statusCode, message |-> message]
NoResponse == Response(0, NullMessage)
NoLambdaRun == [started |-> FALSE, id |-> Undefined, kind |-> "none", error |-> NoError]

\* makeResponse(500, "Test failed")
FailureBodyOfLambda(e) == Text("Test failed")

\* body: error instanceof Error ? error.message : JSON.stringify(error)
FailureBodyOfController(e) == e.message

HandlerIdle ==
    /\ lpc = "idle"
    /\ lambda = "none"
    /\ queryStringParameters = QueryString(FALSE, FALSE, <<>>)
    /\ response = NoResponse
    /\ lambdaRun = NoLambdaRun

\* TestDeliveryServer handler: the server id is read and checked, then
\* handleTestDeliveryServer calls runForDeliveryServer
LambdaHandler ==
    /\ lpc = "request"
    /\ lambda = "TestDeliveryServer"
    /\ LET deliveryServerId ==
               IF queryStringParameters.present /\ queryStringParameters.hasId
                  /\ queryStringParameters.text # <<>>
               THEN parseInt(queryStringParameters.text)
               ELSE Undefined
       IN  IF Falsy(deliveryServerId)
           THEN /\ response' =
                      Response(404, Text("Delivery server ID not found or invalid."))
                /\ lpc' = "responded"
                /\ lambdaRun' = lambdaRun
           ELSE /\ lambdaRun' = [lambdaRun EXCEPT !.started = TRUE,
                                                  !.id = deliveryServerId]
                /\ lpc' = "running"
                /\ response' = response
    /\ UNCHANGED <<lambda, queryStringParameters>>
    /\ UNCHANGED <<orchVars, retrVars, stageVars, notHandlerVars>>

\* handleTestDeliveryServer: the awaited run returns or throws
LambdaRunEnds ==
    /\ lpc = "running"
    /\ lambda = "TestDeliveryServer"
    /\ \E end \in RunEndings(mw_delivery_server, lambdaRun.id) :
          /\ lambdaRun' = [lambdaRun EXCEPT !.kind = end.kind, !.error = end.error]
          /\ response' =
                IF end.kind = "threw"
                THEN Response(500, FailureBodyOfLambda(end.error))
                ELSE Response(200, Text("Test completed successfully"))
    /\ lpc' = "responded"
    /\ UNCHANGED <<lambda, queryStringParameters>>
    /\ UNCHANGED <<orchVars, retrVars, stageVars, notHandlerVars>>

\* MailwizzTesterController.handleRequest, up to the call of
\* runForDeliveryServer: parseInt(event.queryStringParameters!.getDeliveryServerById!)
ControllerHandleRequest ==
    /\ lpc = "request"
    /\ lambda = "MailwizzTesterController"
    /\ IF ~queryStringParameters.present
       THEN /\ response' = Response(500, FailureBodyOfController(TypeError))
            /\ lpc' = "responded"
            /\ lambdaRun' = lambdaRun
       ELSE /\ lambdaRun' =
                  [lambdaRun EXCEPT
                      !.started = TRUE,
                      !.id = IF queryStringParameters.hasId
                             THEN parseInt(queryStringParameters.text) ELSE NaN]
            /\ lpc' = "running"
            /\ response' = response
    /\ UNCHANGED <<lambda, queryStringParameters>>
    /\ UNCHANGED <<orchVars, retrVars, stageVars, notHandlerVars>>

\* handleRequest: the awaited run returns or throws
ControllerRunEnds ==
    /\ lpc = "running"
    /\ lambda = "MailwizzTesterController"
    /\ \E end \in RunEndings(mw_delivery_server, lambdaRun.id) :
          /\ lambdaRun' = [lambdaRun EXCEPT !.kind = end.kind, !.error = end.error]
          /\ response' =
                IF end.kind = "threw"
                THEN Response(500, FailureBodyOfController(end.error))
                ELSE Response(200, Text("Test completed successfully"))
    /\ lpc' = "responded"
    /\ UNCHANGED <<lambda, queryStringParameters>>
    /\ UNCHANGED <<orchVars, retrVars, stageVars, notHandlerVars>>

(***************************************************************************)
(* CampaignCreator, and the hand-over of its result to the retriever.      *)
(***************************************************************************)
\* uuidv4(): the n-th value the generator returns; the values of a version 4
\* generator do not repeat.
uuidv4(n) == [i \in 1..(n + 1) |-> "a"]

\* A tag made once and kept for every campaign of the process.
campaignSubjectUuidOfProcess(issued) == uuidv4(0)

\* const campaignSubjectUuid = uuidv4()
campaignSubjectUuid(issued) == uuidv4(issued)

\* mailwizzDeliveryServer.from_email of the two servers
FromEmailOf(id) ==
    IF id = 41 THEN Address(<<"t">>, DomainAbCo) ELSE Address(<<"t">>, DomainMAbCo)

\* `Test Email from ${domainName} [${campaignSubjectUuid}]`
emailSubject(domainName, tag) ==
    <<"T", " ">> \o domainName \o <<" ", "[">> \o tag \o <<"]">>

\* The row campaign_create_new inserts, as far as the parameters of
\* createCampaign determine it
CampaignRow(id, deliveryServerId, subject, fromName, fromEmail) ==
    [campaign_id |-> id, delivery_server_id |-> deliveryServerId,
     subject |-> subject, from_name |-> fromName, from_email |-> fromEmail]

\* What the stored procedure call gives back: a campaign id, a row without
\* one, or a query error
ProcedureOutcomes == {"campaign_id", "no_campaign_id", "error"}

CampaignCreationResult(tag, id) == [campaignSubjectUuid |-> tag, campaignId |-> id]
NoCampaignData == CampaignCreationResult(<<>>, 0)

InjectorIdle ==
    /\ jpc = "idle"
    /\ injections = 0
    /\ uuidsIssued = 0
    /\ campaign_table = <<>>
    /\ campaignData = NoCampaignData
    /\ injectorError = NoError
    /\ searched = <<>>
    /\ inbox = <<>>

\* Step 2 of a run: await new CampaignCreator().run(mailwizzDeliveryServer)
CreateAndSendCampaign ==
    /\ jpc = "idle"
    /\ injections < MaxRuns
    /\ injections' = injections + 1
    /\ uuidsIssued' = uuidsIssued + 1
    /\ \E id \in ServerIds, r \in ProcedureOutcomes :
          LET domainName == splitSecond(FromEmailOf(id), "@")
              tag == campaignSubjectUuid(uuidsIssued)
              newId == Len(campaign_table) + 1
          IN  /\ serverId' = id
              /\ IF r = "campaign_id"
                 THEN /\ campaign_table' =
                            Append(campaign_table,
                                   CampaignRow(newId, id, emailSubject(domainName, tag),
                                               domainName, FromEmailOf(id)))
                      /\ campaignData' = CampaignCreationResult(tag, newId)
                      /\ injectorError' = NoError
                      /\ jpc' = "retrieve"
                 ELSE /\ campaign_table' = campaign_table
                      /\ campaignData' = NoCampaignData
                      /\ injectorError' =
                            IF r = "error" THEN DbError ELSE NoCampaignIdError
                      /\ jpc' = "threw"
    /\ UNCHANGED <<searched, inbox>>
    /\ UNCHANGED <<mw_delivery_server, tests_table, group_table, pc, runId, error,
                   calls, outcome, rowsAtStart, statusAtStart, signals, successes,
                   audit>>
    /\ UNCHANGED <<retrVars, stageVars, notInjVars>>

\* Step 3 of the run: new EmailRetriever().retrieveEmailWithRetries(
\* campaignData.campaignSubjectUuid)
CallRetriever ==
    /\ jpc = "retrieve"
    /\ uuid' = campaignData.campaignSubjectUuid
    /\ searched' = Append(searched, campaignData.campaignSubjectUuid)
    /\ jpc' = "idle"
    /\ UNCHANGED <<injections, uuidsIssued, campaign_table, campaignData,
                   injectorError, inbox>>
    /\ UNCHANGED <<session, client, opened, closed, messageList, cursor, fetched,
                   pending, retrievalResult>>
    /\ UNCHANGED <<orchVars, retrVars, intVars, valVars, hdrVars, notInjVars>>

\* The run whose injection threw goes to its catch block; the next run may start
InjectionFailed ==
    /\ jpc = "threw"
    /\ jpc' = "idle"
    /\ UNCHANGED <<injections, uuidsIssued, campaign_table, campaignData,
                   injectorError, searched, inbox>>
    /\ UNCHANGED <<orchVars, retrVars, stageVars, notInjVars>>

\* The platform sends a created campaign (the stored procedure sets send_at) and
\* its mail, with the subject given to the procedure, reaches the mailbox
PlatformDelivers ==
    /\ \E i \in 1..Len(campaign_table) :
          /\ \A m \in 1..Len(inbox) : inbox[m] # campaign_table[i].subject
          /\ inbox' = Append(inbox, campaign_table[i].subject)
    /\ UNCHANGED <<jpc, injections, uuidsIssued, campaign_table, campaignData,
                   injectorError, searched>>
    /\ UNCHANGED <<orchVars, retrVars, stageVars, notInjVars>>

(***************************************************************************)
(* Runs of different servers side by side (two requests served by two      *)
(* handler instances, or a request during a scan).  Every run uses the one *)
(* test list with its two subscribers, the test recipient and the test     *)
(* bounce address.  The environment is taken without I/O failures, so that *)
(* a run on its own passes.                                                *)
(***************************************************************************)
TestEmails == {"MAILWIZZ_TEST_RECIPIENT_EMAIL", "MAILWIZZ_TEST_BOUNCE_EMAIL"}

Campaign(created, sent, toRecipient, toBounce, bounceLogged) ==
    [created |-> created, sent |-> sent, toRecipient |-> toRecipient,
     toBounce |-> toBounce, bounceLogged |-> bounceLogged]
NoCampaign == Campaign(FALSE, FALSE, FALSE, FALSE, FALSE)

\* DELETE FROM mw_email_blacklist WHERE email = MAILWIZZ_TEST_BOUNCE_EMAIL
deleteTestBounceEmailFromBlacklist(blacklist) ==
    blacklist \ {"MAILWIZZ_TEST_BOUNCE_EMAIL"}

\* UPDATE mw_list_subscriber SET status = 'confirmed'
\* WHERE email IN (bounce, recipient) AND list_id = MAILWIZZ_TEST_LIST_ID
updateTestEmailsSubscriptionStatusToConfirmed(subscribers) ==
    [e \in DOMAIN subscribers |-> IF e \in TestEmails THEN "confirmed" ELSE subscribers[e]]

ConcurrentIdle ==
    /\ overlap = FALSE
    /\ cpc = [r \in ServerIds |-> "idle"]
    /\ mw_list_subscriber = [e \in TestEmails |-> "confirmed"]
    /\ mw_email_blacklist = {}
    /\ campaign = [r \in ServerIds |-> NoCampaign]
    /\ concOutcome = [r \in ServerIds |-> "none"]

\* runForDeliveryServer(r) is called; without overlap only when no other run
\* is under way
RunBegins(r) ==
    /\ cpc[r] = "idle"
    /\ overlap \/ \A o \in ServerIds : cpc[o] \in {"idle", "ended"}
    /\ cpc' = [cpc EXCEPT ![r] = "prepare"]
    /\ UNCHANGED <<overlap, mw_list_subscriber, mw_email_blacklist, campaign,
                   concOutcome>>
    /\ UNCHANGED <<orchVars, retrVars, stageVars, notConcVars>>

\* Step 1: MailwizzDatabasePreparator.run
RunPrepares(r) ==
    /\ cpc[r] = "prepare"
    /\ mw_email_blacklist' = deleteTestBounceEmailFromBlacklist(mw_email_blacklist)
    /\ mw_list_subscriber' =
          updateTestEmailsSubscriptionStatusToConfirmed(mw_list_subscriber)
    /\ cpc' = [cpc EXCEPT ![r] = "inject"]
    /\ UNCHANGED <<overlap, campaign, concOutcome>>
    /\ UNCHANGED <<orchVars, retrVars, stageVars, notConcVars>>

\* Step 2: the stored procedure creates the campaign on the test list
RunInjects(r) ==
    /\ cpc[r] = "inject"
    /\ campaign' = [campaign EXCEPT ![r].created = TRUE]
    /\ cpc' = [cpc EXCEPT ![r] = "retrieve"]
    /\ UNCHANGED <<overlap, mw_list_subscriber, mw_email_blacklist, concOutcome>>
    /\ UNCHANGED <<orchVars, retrVars, stageVars, notConcVars>>

\* The platform sends the campaign to the subscribers of the list that are
\* confirmed and not blacklisted at that moment
PlatformSendsCampaign(r) ==
    /\ campaign[r].created
    /\ ~campaign[r].sent
    /\ campaign' =
          [campaign EXCEPT ![r] =
              Campaign(TRUE, TRUE,
                       mw_list_subscriber["MAILWIZZ_TEST_RECIPIENT_EMAIL"] = "confirmed",
                       /\ mw_list_subscriber["MAILWIZZ_TEST_BOUNCE_EMAIL"] = "confirmed"
                       /\ "MAILWIZZ_TEST_BOUNCE_EMAIL" \notin mw_email_blacklist,
                       FALSE)]
    /\ UNCHANGED <<overlap, cpc, mw_list_subscriber, mw_email_blacklist, concOutcome>>
    /\ UNCHANGED <<orchVars, retrVars, stageVars, notConcVars>>

\* The run ends: a run that throws sets its server to inactive
RunEndsWith(r, kind) ==
    /\ cpc' = [cpc EXCEPT ![r] = "ended"]
    /\ concOutcome' = [concOutcome EXCEPT ![r] = kind]
    /\ mw_delivery_server' =
          IF kind = "raised"
          THEN updateDeliveryServerStatus(mw_delivery_server, r, "inactive")
          ELSE mw_delivery_server

\* Step 3: the mail of the run's campaign is in the mailbox, or no attempt
\* finds it
RunRetrieves(r) ==
    /\ cpc[r] = "retrieve"
    /\ campaign[r].sent
    /\ IF campaign[r].toRecipient
       THEN /\ cpc' = [cpc EXCEPT ![r] = "interact"]
            /\ UNCHANGED <<concOutcome, mw_delivery_server>>
       ELSE RunEndsWith(r, "raised")
    /\ UNCHANGED <<overlap, mw_list_subscriber, mw_email_blacklist, campaign>>
    /\ UNCHANGED <<tests_table, group_table, pc, runId, serverId, error, calls,
                   outcome, rowsAtStart, statusAtStart, signals, successes, audit>>
    /\ UNCHANGED <<retrVars, stageVars, notConcVars>>

\* Step 4: the GET of the unsubscribe link, on which the platform
\* unsubscribes the test recipient from the test list
RunInteracts(r) ==
    /\ cpc[r] = "interact"
    /\ mw_list_subscriber' =
          [mw_list_subscriber EXCEPT !["MAILWIZZ_TEST_RECIPIENT_EMAIL"] = "unsubscribed"]
    /\ cpc' = [cpc EXCEPT ![r] = "validate"]
    /\ UNCHANGED <<overlap, mw_email_blacklist, campaign, concOutcome>>
    /\ UNCHANGED <<orchVars, retrVars, stageVars, notConcVars>>

\* The platform processes the bounce of the campaign's mail to the bounce
\* address: it logs the bounce for the campaign and blacklists the address
PlatformLogsBounce(r) ==
    /\ campaign[r].toBounce
    /\ ~campaign[r].bounceLogged
    /\ campaign' = [campaign EXCEPT ![r].bounceLogged = TRUE]
    /\ mw_email_blacklist' = mw_email_blacklist \cup {"MAILWIZZ_TEST_BOUNCE_EMAIL"}
    /\ UNCHANGED <<overlap, cpc, mw_list_subscriber, concOutcome>>
    /\ UNCHANGED <<orchVars, retrVars, stageVars, notConcVars>>

\* Step 5 and the steps after it: the bounce record of the campaign is found
\* within the attempts, or it never comes
RunValidates(r) ==
    /\ cpc[r] = "validate"
    /\ campaign[r].toBounce => campaign[r].bounceLogged
    /\ RunEndsWith(r, IF campaign[r].bounceLogged THEN "returned" ELSE "raised")
    /\ UNCHANGED <<overlap, mw_list_subscriber, mw_email_blacklist, campaign>>
    /\ UNCHANGED <<tests_table, group_table, pc, runId, serverId, error, calls,
                   outcome, rowsAtStart, statusAtStart, signals, successes, audit>>
    /\ UNCHANGED <<retrVars, stageVars, notConcVars>>

(***************************************************************************)
(* EmailLinkExtractor, as the three interaction handlers call it.  The     *)
(* email's HTML is taken as cheerio parsed it: the img and a elements in   *)
(* document order, each with its src or href attribute (if it has one) and *)
(* its text.  The GET that a handler sends to the URL it found is taken in *)
(* the interactor above.                                                   *)
(***************************************************************************)
Element(tag, has, url, text) == [tag |-> tag, has |-> has, url |-> url, text |-> text]

\* The literals of the selectors and filters
TrackOpenPath == <<"/", "t", "r", "a", "c", "k", "/", "o", "p", "e", "n", "/">>
TrackWord == <<"t", "r", "a", "c", "k">>
UnsubscribePath == <<"/", "u", "n", "s", "u", "b", "s", "c", "r", "i", "b", "e", "/">>
TrackUnsubscribePath == <<"/", "t", "r", "a", "c", "k", "/", "u", "n", "s", "u", "b", "s", "c", "r", "i", "b", "e", "/">>
JavascriptScheme == <<"j", "a", "v", "a", "s", "c", "r", "i", "p", "t", ":">>
MailtoScheme == <<"m", "a", "i", "l", "t", "o", ":">>
UnsubscribeWord == <<"u", "n", "s", "u", "b", "s", "c", "r", "i", "b", "e">>
OptOutWords == <<"o", "p", "t", " ", "o", "u", "t">>

Images ==
    {Element("img", TRUE, u, <<>>) :
        u \in {<<"h", "/", "t", "r", "a", "c", "k", "/", "o", "p", "e", "n", "/", "1">>, <<"h", "/", "t", "r", "a", "c", "k", "/", "x">>, <<"h", "/", "l", "o", "g", "o">>}}
        \cup {Element("img", FALSE, <<>>, <<>>)}

Anchors ==
    {Element("a", TRUE, <<"h", "/", "p">>, <<"V", "i", "s", "i", "t">>),
     Element("a", TRUE, <<"h", "/", "q">>, <<"M", "o", "r", "e">>),
     Element("a", TRUE, <<"h", "/", "u", "n", "s", "u", "b", "s", "c", "r", "i", "b", "e", "/", "1">>, <<"x">>),
     Element("a", TRUE, <<"h", "/", "t", "r", "a", "c", "k", "/", "u", "n", "s", "u", "b", "s", "c", "r", "i", "b", "e", "/", "1">>, <<"x">>),
     Element("a", TRUE, <<"j", "a", "v", "a", "s", "c", "r", "i", "p", "t", ":", "v">>, <<"x">>),
     Element("a", TRUE, <<"m", "a", "i", "l", "t", "o", ":", "a">>, <<"x">>),
     Element("a", TRUE, <<"h", "/", "o">>, <<"U", "n", "s", "u", "b", "s", "c", "r", "i", "b", "e">>),
     Element("a", TRUE, <<>>, <<"o", "p", "t", " ", "o", "u", "t">>),
     Element("a", FALSE, <<>>, <<"U", "n", "s", "u", "b", "s", "c", "r", "i", "b", "e">>)}

Documents ==
    UNION {[1..n -> Images \cup Anchors] : n \in 0..MaxElements}

\* null, and the empty string that `|| null` and the truth tests treat alike
NullLink == <<>>

\* String.prototype.startsWith(prefix)
startsWithPrefix(str, prefix) ==
    Len(str) >= Len(prefix) /\ SubSeq(str, 1, Len(prefix)) = prefix

\* $(selector): the positions of the matching elements, in document order
Select(doc, Matches(_)) == {i \in 1..Len(doc) : Matches(doc[i])}

\* $(...).attr(name) of a non-empty selection: the attribute of its first
\* element, then `|| null`
FirstAttr(doc, selection) ==
    LET first == doc[Min(selection)]
    IN  IF first.has THEN first.url ELSE NullLink

\* img[src*="..."]
ImgSrcContains(el, sub) == el.tag = "img" /\ el.has /\ Includes(el.url, sub)

\* A pixel extractor that takes the first image with 'track' in its URL.
extractFirstTrackImage(doc, loaded) ==
    LET IsFallback(el) == ImgSrcContains(el, TrackWord)
    IN  IF loaded /\ Select(doc, IsFallback) # {}
        THEN FirstAttr(doc, Select(doc, IsFallback))
        ELSE NullLink

\* extractTrackingPixelUrl; loaded is FALSE when cheerio.load throws, and
\* the catch block returns null
extractTrackingPixelUrl(doc, loaded) ==
    LET IsOpen(el) == ImgSrcContains(el, TrackOpenPath)
        IsFallback(el) == ImgSrcContains(el, TrackWord)
    IN  IF ~loaded THEN NullLink
        ELSE IF Select(doc, IsOpen) # {} THEN FirstAttr(doc, Select(doc, IsOpen))
        ELSE IF Select(doc, IsFallback) # {} THEN FirstAttr(doc, Select(doc, IsFallback))
        ELSE NullLink

\* The test of extractContentLinks on one href
IsContentHref(href) ==
    /\ href # <<>>
    /\ ~startsWithPrefix(href, JavascriptScheme)
    /\ ~startsWithPrefix(href, MailtoScheme)
    /\ ~Includes(href, UnsubscribePath)
    /\ ~Includes(href, TrackUnsubscribePath)

RECURSIVE ContentHrefs(_, _)
ContentHrefs(doc, k) ==
    IF k = 0 THEN <<>>
    ELSE IF doc[k].tag = "a" /\ doc[k].has /\ IsContentHref(doc[k].url)
         THEN Append(ContentHrefs(doc, k - 1), doc[k].url)
         ELSE ContentHrefs(doc, k - 1)

\* extractContentLinks: $('a[href]').each(... links.push(href)), [] when
\* cheerio.load throws
extractContentLinks(doc, loaded) ==
    IF loaded THEN ContentHrefs(doc, Len(doc)) ELSE <<>>

\* The filter of extractUnsubscribeLink on one a element
IsUnsubscribeAnchor(el) ==
    /\ el.tag = "a"
    /\ LET href == IF el.has THEN el.url ELSE <<>>
           text == toLowerCase(el.text)
       IN  \/ Includes(href, UnsubscribePath)
           \/ Includes(href, TrackUnsubscribePath)
           \/ Includes(text, UnsubscribeWord)
           \/ Includes(text, OptOutWords)

\* extractUnsubscribeLink: unsubscribeLinks.first().attr('href') || null
extractUnsubscribeLink(doc, loaded) ==
    IF loaded /\ Select(doc, IsUnsubscribeAnchor) # {}
    THEN FirstAttr(doc, Select(doc, IsUnsubscribeAnchor))
    ELSE NullLink

Extracted(pixel, content, unsubscribe) ==
    [pixel |-> pixel, content |-> content, unsubscribe |-> unsubscribe]
InteractedLinks(openPixelUrl, clickedUrl, unsubscribeUrl) ==
    [openPixelUrl |-> openPixelUrl, clickedUrl |-> clickedUrl,
     unsubscribeUrl |-> unsubscribeUrl]

ExtractorIdle ==
    /\ xpc = "idle"
    /\ emailContent = <<>>
    /\ extracted = Extracted(NullLink, <<>>, NullLink)
    /\ interactedLinks = InteractedLinks(NullLink, NullLink, NullLink)

\* handleEmailOpenAndUpdateResult: the URL it finds and acts on
OpenHandlerExtracts ==
    /\ xpc = "open"
    /\ \E loaded \in BOOLEAN :
          LET trackingPixelUrl == extractTrackingPixelUrl(emailContent, loaded)
          IN  /\ extracted' = [extracted EXCEPT !.pixel = trackingPixelUrl]
              /\ interactedLinks' =
                    [interactedLinks EXCEPT !.openPixelUrl = trackingPixelUrl]
    /\ xpc' = "click"
    /\ UNCHANGED emailContent
    /\ UNCHANGED <<orchVars, retrVars, stageVars, notExtVars>>

\* handleLinkClickAndUpdateResult: linkToClick = contentLinks[0]
ClickHandlerExtracts ==
    /\ xpc = "click"
    /\ \E loaded \in BOOLEAN :
          LET contentLinks == extractContentLinks(emailContent, loaded)
          IN  /\ extracted' = [extracted EXCEPT !.content = contentLinks]
              /\ interactedLinks' =
                    [interactedLinks EXCEPT
                        !.clickedUrl = IF Len(contentLinks) > 0
                                       THEN contentLinks[1] ELSE NullLink]
    /\ xpc' = "unsubscribe"
    /\ UNCHANGED emailContent
    /\ UNCHANGED <<orchVars, retrVars, stageVars, notExtVars>>

\* handleUnsubscribeAndUpdateResult: the URL it finds and acts on
UnsubscribeHandlerExtracts ==
    /\ xpc = "unsubscribe"
    /\ \E loaded \in BOOLEAN :
          LET unsubscribeLink == extractUnsubscribeLink(emailContent, loaded)
          IN  /\ extracted' = [extracted EXCEPT !.unsubscribe = unsubscribeLink]
              /\ interactedLinks' =
                    [interactedLinks EXCEPT !.unsubscribeUrl = unsubscribeLink]
    /\ xpc' = "done"
    /\ UNCHANGED emailContent
    /\ UNCHANGED <<orchVars, retrVars, stageVars, notExtVars>>

(***************************************************************************)
(* MailwizzDatabasePreparator.run, statement by statement, and what the    *)
(* run does when it has returned or thrown.                                *)
(***************************************************************************)
Statement(name, ok) == [name |-> name, ok |-> ok]

PreparationSteps == <<"deleteTestBounceEmailFromBlacklist",
                      "updateTestEmailsSubscriptionStatusToConfirmed",
                      "setDeliveryServerUnlimitedQuotaById">>

\* try { await this.dbConnector.query(...) } catch (error) { console.error }:
\* the two subscriber statements return whether the query failed or not
AfterSubscriberStatement(q, next) == next

\* A quota update wrapped in a try/catch that logs.
AfterQuotaUpdateSwallowed(q) == "returned"

\* setDeliveryServerUnlimitedQuotaById: await this.dbConnector.query(...) with
\* no try/catch
AfterQuotaUpdate(q) == IF q = "error" THEN "threw" ELSE "returned"

\* SET second_quota = 0, minute_quota = 0, hourly_quota = 0, daily_quota = 0,
\* monthly_quota = 0 WHERE server_id = ?
setDeliveryServerUnlimitedQuotaById(quotas, id) ==
    [s \in DOMAIN quotas |-> IF s = id THEN "unlimited" ELSE quotas[s]]

PreparatorIdle ==
    /\ ppc = "idle"
    /\ prepared = 0
    /\ statements = <<>>
    /\ quota = [s \in ServerIds |-> "limited"]
    /\ injectionStarted = FALSE

prepFrame == <<overlap, cpc, campaign, concOutcome>>

\* Step 1 of the run: await this.databasePreparator.run(mailwizzDeliveryServer)
PreparatorRun ==
    /\ ppc = "idle"
    /\ \E id \in ServerIds : prepared' = id
    /\ ppc' = "blacklist"
    /\ UNCHANGED <<statements, quota, injectionStarted, mw_email_blacklist,
                   mw_list_subscriber, prepFrame>>
    /\ UNCHANGED <<orchVars, retrVars, stageVars, scanVars, handlerVars, injVars,
                   extVars, envVars>>

DeleteFromBlacklist ==
    /\ ppc = "blacklist"
    /\ \E q \in {"rows", "error"} :
          /\ mw_email_blacklist' =
                IF q = "rows"
                THEN deleteTestBounceEmailFromBlacklist(mw_email_blacklist)
                ELSE mw_email_blacklist
          /\ statements' = Append(statements, Statement(PreparationSteps[1], q = "rows"))
          /\ ppc' = AfterSubscriberStatement(q, "subscription")
    /\ UNCHANGED <<prepared, quota, injectionStarted, mw_list_subscriber, prepFrame>>
    /\ UNCHANGED <<orchVars, retrVars, stageVars, scanVars, handlerVars, injVars,
                   extVars, envVars>>

ConfirmSubscription ==
    /\ ppc = "subscription"
    /\ \E q \in {"rows", "error"} :
          /\ mw_list_subscriber' =
                IF q = "rows"
                THEN updateTestEmailsSubscriptionStatusToConfirmed(mw_list_subscriber)
                ELSE mw_list_subscriber
          /\ statements' = Append(statements, Statement(PreparationSteps[2], q = "rows"))
          /\ ppc' = AfterSubscriberStatement(q, "quota")
    /\ UNCHANGED <<prepared, quota, injectionStarted, mw_email_blacklist, prepFrame>>
    /\ UNCHANGED <<orchVars, retrVars, stageVars, scanVars, handlerVars, injVars,
                   extVars, envVars>>

SetUnlimitedQuota ==
    /\ ppc = "quota"
    /\ \E q \in {"rows", "error"} :
          /\ quota' = IF q = "rows"
                      THEN setDeliveryServerUnlimitedQuotaById(quota, prepared)
                      ELSE quota
          /\ statements' = Append(statements, Statement(PreparationSteps[3], q = "rows"))
          /\ ppc' = AfterQuotaUpdate(q)
    /\ UNCHANGED <<prepared, injectionStarted, mw_email_blacklist,
                   mw_list_subscriber, prepFrame>>
    /\ UNCHANGED <<orchVars, retrVars, stageVars, scanVars, handlerVars, injVars,
                   extVars, envVars>>

\* runForDeliveryServer after step 1: step 2 when the preparator returned, the
\* catch block when it threw
RunGoesOn ==
    /\ ppc \in {"returned", "threw"}
    /\ ppc' = IF ppc = "returned" THEN "inject" ELSE "catch"
    /\ injectionStarted' = (ppc = "returned")
    /\ UNCHANGED <<prepared, statements, quota, mw_email_blacklist,
                   mw_list_subscriber, prepFrame>>
    /\ UNCHANGED <<orchVars, retrVars, stageVars, scanVars, handlerVars, injVars,
                   extVars, envVars>>

(***************************************************************************)
(* Specifications                                                          *)
(***************************************************************************)
InitialGroupTables ==
    {<<>>,
     <<GroupRow(41, MAILWIZZ_DEFAULT_CUSTOMER_GROUP_ID)>>,
     <<GroupRow(42, MAILWIZZ_DEFAULT_CUSTOMER_GROUP_ID)>>,
     <<GroupRow(41, MAILWIZZ_DEFAULT_CUSTOMER_GROUP_ID),
       GroupRow(42, MAILWIZZ_DEFAULT_CUSTOMER_GROUP_ID)>>}

OrchestratorIdle ==
    /\ pc = "idle"
    /\ runId = 0
    /\ serverId = 0
    /\ error = NoError
    /\ calls = <<>>
    /\ outcome = IdleOutcome
    /\ rowsAtStart = 0
    /\ signals = <<>>
    /\ audit = <<>>
    /\ tests_table = <<>>
    /\ statusAtStart = mw_delivery_server
    /\ successes = [s \in ServerIds |-> 0]

EntryIdle ==
    /\ ScannerIdle /\ HandlerIdle /\ InjectorIdle /\ ConcurrentIdle
    /\ ExtractorIdle /\ EnvironmentUnset /\ PreparatorIdle

StagesIdle ==
    /\ MailboxIdle
    /\ InteractorIdle
    /\ ValidatorIdle
    /\ HeadersIdle

Init ==
    /\ mw_delivery_server \in [ServerIds -> {"active", "inactive", "absent"}]
    /\ group_table \in InitialGroupTables
    /\ OrchestratorIdle
    /\ RetrieverIdle
    /\ StagesIdle
    /\ EntryIdle

Next ==
    \/ StartRun
    \/ GetDeliveryServer
    \/ Prepare
    \/ CreateCampaign
    \/ AttemptRetrieval
    \/ DelayWait
    \/ RetrievalExhausted
    \/ AfterRetrieve
    \/ StartEmailInteractions
    \/ ValidateInteractionRecords
    \/ TestEmailHeaders
    \/ CreateSuccessful
    \/ AddToGroup
    \/ ReturnNormally
    \/ CatchCreate
    \/ CatchUpdateStatus
    \/ Rethrow

Spec == Init /\ [][Next]_vars

\* Step 5 taken query by query: the orchestrator calls
\* validateInteractionRecords(campaignData.campaignId) ...
EnterValidation ==
    /\ pc = "validateInteractionRecords"
    /\ vpc = "idle"
    /\ vpc' = "open"
    /\ UNCHANGED <<queries, vresult, bounceAttempts, bounceWaits, bounceWaitedMs,
                   bounceLastError, bounceResult, validatorError>>
    /\ UNCHANGED <<orchVars, retrVars, mboxVars, intVars, hdrVars, entryVars>>

\* ... and the call returns or throws
AfterValidate ==
    /\ pc = "validateInteractionRecords"
    /\ \/ /\ vpc = "returned"
          /\ Resolve("validateInteractionRecords")
       \/ /\ vpc = "threw"
          /\ Reject("validateInteractionRecords", validatorError)
    /\ audit' = <<vresult.openRecordsExist, vresult.clickRecordsExist,
                  vresult.unsubscribeRecordsExist, vresult.bounceRecordsExist>>
    /\ vpc' = "idle"
    /\ queries' = [st \in Stores |-> [n |-> 0, found |-> FALSE, threw |-> 0]]
    /\ vresult' = InitialValidationResult
    /\ bounceAttempts' = 0
    /\ bounceWaits' = 0
    /\ bounceWaitedMs' = 0
    /\ bounceLastError' = UNDEFINED
    /\ bounceResult' = NoBounceResult
    /\ validatorError' = NoError
    /\ UNCHANGED <<mw_delivery_server, tests_table, group_table, runId, serverId,
                   outcome, rowsAtStart, statusAtStart, signals, successes>>
    /\ UNCHANGED retrVars
    /\ UNCHANGED <<mboxVars, intVars, hdrVars, entryVars>>

\* One call of runForDeliveryServer
StartSingleRun == runId = 0 /\ StartRun

\* The steps of a run in flight, with both retry loops taken attempt by
\* attempt
RunStep ==
    \/ GetDeliveryServer
    \/ Prepare
    \/ CreateCampaign
    \/ AttemptRetrieval
    \/ DelayWait
    \/ RetrievalExhausted
    \/ AfterRetrieve
    \/ StartEmailInteractions
    \/ EnterValidation
    \/ CheckOpenRecords
    \/ CheckClickRecords
    \/ CheckUnsubscribeRecords
    \/ BounceAttempt
    \/ BounceWait
    \/ BounceExhausted
    \/ FinishValidation
    \/ AfterValidate
    \/ TestEmailHeaders
    \/ CreateSuccessful
    \/ AddToGroup
    \/ ReturnNormally
    \/ CatchCreate
    \/ CatchUpdateStatus
    \/ Rethrow

NextSingleRun ==
    \/ StartSingleRun
    \/ RunStep

\* One server that exists and one that does not
InitSingleRun ==
    /\ mw_delivery_server \in {[s \in ServerIds |-> IF s = x THEN "active" ELSE "absent"] :
                                 x \in ServerIds}
    /\ group_table = <<>>
    /\ OrchestratorIdle
    /\ RetrieverIdle
    /\ StagesIdle
    /\ EntryIdle

\* Every awaited call of a run in flight returns or throws
SpecSingleRun == InitSingleRun /\ [][NextSingleRun]_vars /\ WF_vars(RunStep)

\* retrieveEmailWithRetries called on its own, with arguments of the caller's choice.
InitRetriever ==
    /\ mw_delivery_server = [s \in ServerIds |-> "active"]
    /\ group_table = <<>>
    /\ OrchestratorIdle
    /\ rpc = "loop"
    /\ maxAttempts \in 1..MaxAttemptsChoice
    /\ timeBetweenAttemptsMs \in Intervals
    /\ attempts = 0
    /\ waits = 0
    /\ waitedMs = 0
    /\ lastError = UNDEFINED
    /\ attemptOutcome = "none"
    /\ retrieverError = NoError
    /\ StagesIdle
    /\ EntryIdle

NextRetriever ==
    \/ AttemptRetrieval
    \/ DelayWait
    \/ RetrievalExhausted

SpecRetriever == InitRetriever /\ [][NextRetriever]_vars

OrchestratorAtRest ==
    /\ mw_delivery_server = [s \in ServerIds |-> "active"]
    /\ group_table = <<>>
    /\ OrchestratorIdle

\* retrieveEmailWithRetries called on its own, each attempt taken step by step.
InitMailbox ==
    /\ OrchestratorAtRest
    /\ EntryIdle
    /\ rpc = "loop"
    /\ maxAttempts \in 1..MaxAttemptsChoice
    /\ timeBetweenAttemptsMs = DefaultTimeBetweenAttemptsMs
    /\ attempts = 0
    /\ waits = 0
    /\ waitedMs = 0
    /\ lastError = UNDEFINED
    /\ attemptOutcome = "none"
    /\ retrieverError = NoError
    /\ uuid \in Tags
    /\ session = "none"
    /\ client = 0
    /\ opened = 0
    /\ closed = 0
    /\ messageList = <<>>
    /\ cursor = 0
    /\ fetched = <<>>
    /\ pending = NoCompletion
    /\ retrievalResult = NullEmail
    /\ InteractorIdle
    /\ ValidatorIdle
    /\ HeadersIdle

NextMailbox ==
    \/ BeginAttempt
    \/ ConnectAndAuthenticate
    \/ Uidl
    \/ Retr
    \/ NotFound
    \/ CloseConnection
    \/ DelayWait
    \/ RetrievalExhausted

SpecMailbox == InitMailbox /\ [][NextMailbox]_vars

\* startEmailInteractions called on its own with an email of the caller's choice.
InitInteractor ==
    /\ OrchestratorAtRest
    /\ EntryIdle
    /\ RetrieverIdle
    /\ MailboxIdle
    /\ ipc = "open"
    /\ emailLinks \in EmailLinkChoices
    /\ requests = <<>>
    /\ result = InitialInteractionResult
    /\ interactorError = NoError
    /\ ValidatorIdle
    /\ HeadersIdle

NextInteractor ==
    \/ HandleEmailOpen
    \/ HandleLinkClick
    \/ HandleUnsubscribe
    \/ FinishInteractions

SpecInteractor == InitInteractor /\ [][NextInteractor]_vars

\* validateInteractionRecords called on its own.
InitValidator ==
    /\ OrchestratorAtRest
    /\ EntryIdle
    /\ RetrieverIdle
    /\ MailboxIdle
    /\ InteractorIdle
    /\ ValidatorEntry
    /\ HeadersIdle

NextValidator ==
    \/ CheckOpenRecords
    \/ CheckClickRecords
    \/ CheckUnsubscribeRecords
    \/ BounceAttempt
    \/ BounceWait
    \/ BounceExhausted
    \/ FinishValidation

SpecValidator == InitValidator /\ [][NextValidator]_vars

\* testEmailHeaders called on its own with an email and a server of the
\* caller's choice.
InitHeaders ==
    /\ OrchestratorAtRest
    /\ EntryIdle
    /\ RetrieverIdle
    /\ MailboxIdle
    /\ InteractorIdle
    /\ ValidatorIdle
    /\ hpc = "call"
    /\ headerNames \in HeaderNameChoices
    /\ \E sv \in SenderValues, fv \in HeaderValues, rv \in HeaderValues :
          email = ParsedHeaders(headerNames, sv, fv, rv)
    /\ from_email \in FromEmails
    /\ hresult = InitialHeaderResult
    /\ headerError = NoError

NextHeaders == TestEmailHeadersCall

SpecHeaders == InitHeaders /\ [][NextHeaders]_vars

\* testEmailHeaders called on its own, on the header values that differ in
\* the case and in the form of the address.
CasingValues ==
    {HeaderValue(nm, FALSE, ad) :
        nm \in {<<>>, <<"a", "b">>, <<"A", "B", ".", "c", "o">>, <<"x", "y">>},
        ad \in {Address(<<"t">>, DomainAbCo), Address(<<"T">>, DomainAbCo),
                Address(<<"x">>, DomainAbCo)}}
        \cup {HeaderValue(<<"a", "b">>, TRUE, Address(<<"t">>, DomainAbCo)),
              MissingHeader}

InitHeaderCasing ==
    /\ OrchestratorAtRest
    /\ EntryIdle
    /\ RetrieverIdle
    /\ MailboxIdle
    /\ InteractorIdle
    /\ ValidatorIdle
    /\ hpc = "call"
    /\ headerNames \in HeaderNameChoices
    /\ \E sv \in SenderValues, fv \in CasingValues, rv \in CasingValues :
          email = ParsedHeaders(headerNames, sv, fv, rv)
    /\ from_email \in FromEmails
    /\ hresult = InitialHeaderResult
    /\ headerError = NoError

SpecHeaderCasing == InitHeaderCasing /\ [][NextHeaders]_vars

\* The auto-runner: scan cycles, one after the other.
InitScanner ==
    /\ mw_delivery_server \in [ServerIds -> {"active", "inactive"}]
    /\ group_table = <<>>
    /\ OrchestratorIdle
    /\ RetrieverIdle
    /\ StagesIdle
    /\ spc = "idle"
    /\ cycles = 0
    /\ last_updated_recent \in SUBSET ServerIds
    /\ tested_recent \in SUBSET ServerIds
    /\ serversToTest = <<>>
    /\ scanIndex = 0
    /\ started = <<>>
    /\ inFlight = 0
    /\ runOutcomes = <<>>
    /\ pool = "null"
    /\ sig = "none"
    /\ HandlerIdle
    /\ InjectorIdle
    /\ ConcurrentIdle
    /\ ExtractorIdle
    /\ EnvironmentUnset
    /\ PreparatorIdle

NextScanner ==
    \/ BeginCycle
    \/ FetchUpdatedInLastHour
    \/ FetchNotTestedInLast24Hours
    \/ StartServerRun
    \/ ServerRunEnds
    \/ FinishCycle

SpecScanner == InitScanner /\ [][NextScanner]_vars

\* The auto-runner with the SIGINT handler installed.
NextShutdown ==
    \/ BeginCycle
    \/ FetchUpdatedInLastHour
    \/ FetchNotTestedInLast24Hours
    \/ StartServerRun
    \/ ServerRunEnds
    \/ FinishCycle
    \/ SigInt
    \/ PoolEnded
    \/ ProcessExit

SpecShutdown == InitScanner /\ [][NextShutdown]_vars

\* The auto-runner as a process: main's while (true) loop with the delay
\* between runs taken from the environment.  Every await of the loop
\* completes (a run ends by C33), hence the fairness on the steps.
InitRunner ==
    /\ mw_delivery_server \in [ServerIds -> {"active", "inactive"}]
    /\ group_table = <<>>
    /\ OrchestratorIdle
    /\ RetrieverIdle
    /\ StagesIdle
    /\ spc = "idle"
    /\ cycles = 0
    /\ last_updated_recent \in SUBSET ServerIds
    /\ tested_recent \in SUBSET ServerIds
    /\ serversToTest = <<>>
    /\ scanIndex = 0
    /\ started = <<>>
    /\ inFlight = 0
    /\ runOutcomes = <<>>
    /\ pool = "null"
    /\ sig = "none"
    /\ HandlerIdle
    /\ InjectorIdle
    /\ ConcurrentIdle
    /\ ExtractorIdle
    /\ DELAY_BETWEEN_RUNS_MINUTES \in EnvValues
    /\ PreparatorIdle

NextRunner ==
    \/ BeginCycle
    \/ FetchUpdatedInLastHour
    \/ FetchNotTestedInLast24Hours
    \/ StartServerRun
    \/ ServerRunEnds
    \/ FinishCycle
    \/ MainRejected

SpecRunner == InitRunner /\ [][NextRunner]_vars /\ WF_vars(NextRunner)

\* One on-demand request, served by either handler.
InitHandler ==
    /\ mw_delivery_server \in [ServerIds -> {"active", "absent"}]
    /\ group_table = <<>>
    /\ OrchestratorIdle
    /\ RetrieverIdle
    /\ StagesIdle
    /\ ScannerIdle
    /\ lpc = "request"
    /\ lambda \in {"TestDeliveryServer", "MailwizzTesterController"}
    /\ queryStringParameters \in QueryStrings
    /\ response = NoResponse
    /\ lambdaRun = NoLambdaRun
    /\ InjectorIdle
    /\ ConcurrentIdle
    /\ ExtractorIdle
    /\ EnvironmentUnset
    /\ PreparatorIdle

NextRequest ==
    \/ LambdaHandler
    \/ LambdaRunEnds
    \/ ControllerHandleRequest
    \/ ControllerRunEnds

SpecHandler == InitHandler /\ [][NextRequest]_vars

\* Steps 2 and 3 of successive runs of one process.
InitInjector ==
    /\ mw_delivery_server = [s \in ServerIds |-> "active"]
    /\ group_table = <<>>
    /\ OrchestratorIdle
    /\ RetrieverIdle
    /\ StagesIdle
    /\ ScannerIdle
    /\ HandlerIdle
    /\ InjectorIdle
    /\ ConcurrentIdle
    /\ ExtractorIdle
    /\ EnvironmentUnset
    /\ PreparatorIdle

NextInjector ==
    \/ CreateAndSendCampaign
    \/ CallRetriever
    \/ InjectionFailed
    \/ PlatformDelivers

SpecInjector == InitInjector /\ [][NextInjector]_vars

\* One run per server, one after the other or side by side.  The state the
\* previous runs left behind: the recipient unsubscribed, the bounce address
\* blacklisted, or not.
InitConcurrent ==
    /\ OrchestratorAtRest
    /\ RetrieverIdle
    /\ StagesIdle
    /\ ScannerIdle
    /\ HandlerIdle
    /\ InjectorIdle
    /\ ExtractorIdle
    /\ EnvironmentUnset
    /\ PreparatorIdle
    /\ overlap \in BOOLEAN
    /\ cpc = [r \in ServerIds |-> "idle"]
    /\ mw_list_subscriber \in
          {[e \in TestEmails |-> "confirmed"],
           [e \in TestEmails |->
               IF e = "MAILWIZZ_TEST_RECIPIENT_EMAIL" THEN "unsubscribed" ELSE "confirmed"]}
    /\ mw_email_blacklist \in {{}, {"MAILWIZZ_TEST_BOUNCE_EMAIL"}}
    /\ campaign = [r \in ServerIds |-> NoCampaign]
    /\ concOutcome = [r \in ServerIds |-> "none"]

NextConcurrent ==
    \/ \E r \in ServerIds : RunBegins(r)
    \/ \E r \in ServerIds : RunPrepares(r)
    \/ \E r \in ServerIds : RunInjects(r)
    \/ \E r \in ServerIds : PlatformSendsCampaign(r)
    \/ \E r \in ServerIds : RunRetrieves(r)
    \/ \E r \in ServerIds : RunInteracts(r)
    \/ \E r \in ServerIds : PlatformLogsBounce(r)
    \/ \E r \in ServerIds : RunValidates(r)

SpecConcurrent == InitConcurrent /\ [][NextConcurrent]_vars

\* The three handlers of one interaction simulation, on an email of the
\* caller's choice.
InitExtractor ==
    /\ OrchestratorAtRest
    /\ RetrieverIdle
    /\ StagesIdle
    /\ ScannerIdle
    /\ HandlerIdle
    /\ InjectorIdle
    /\ ConcurrentIdle
    /\ xpc = "open"
    /\ emailContent \in Documents
    /\ extracted = Extracted(NullLink, <<>>, NullLink)
    /\ interactedLinks = InteractedLinks(NullLink, NullLink, NullLink)
    /\ EnvironmentUnset
    /\ PreparatorIdle

NextExtractor ==
    \/ OpenHandlerExtracts
    \/ ClickHandlerExtracts
    \/ UnsubscribeHandlerExtracts

SpecExtractor == InitExtractor /\ [][NextExtractor]_vars

\* Step 1 of one run, on a database in any state the platform may have left.
InitPreparator ==
    /\ OrchestratorAtRest
    /\ RetrieverIdle
    /\ StagesIdle
    /\ ScannerIdle
    /\ HandlerIdle
    /\ InjectorIdle
    /\ ExtractorIdle
    /\ EnvironmentUnset
    /\ overlap = FALSE
    /\ cpc = [r \in ServerIds |-> "idle"]
    /\ mw_list_subscriber \in [TestEmails -> {"confirmed", "unsubscribed"}]
    /\ mw_email_blacklist \in SUBSET TestEmails
    /\ campaign = [r \in ServerIds |-> NoCampaign]
    /\ concOutcome = [r \in ServerIds |-> "none"]
    /\ ppc = "idle"
    /\ prepared = 0
    /\ statements = <<>>
    /\ quota \in [ServerIds -> {"limited", "unlimited"}]
    /\ injectionStarted = FALSE

NextPreparator ==
    \/ PreparatorRun
    \/ DeleteFromBlacklist
    \/ ConfirmSubscription
    \/ SetUnlimitedQuota
    \/ RunGoesOn

SpecPreparator == InitPreparator /\ [][NextPreparator]_vars

(***************************************************************************)
(* Vocabulary of the properties                                            *)
(***************************************************************************)
IsTryStage(op) == \E k \in 1..Len(TryStages) : TryStages[k] = op

\* The run has ended (returned or raised) and no other run has started since.
RunEnded == pc = "idle" /\ outcome.kind # "none"

\* Some awaited call of the try block rejected in the current run.
StageThrew == \E i \in 1..Len(calls) : IsTryStage(calls[i].op) /\ ~calls[i].ok

\* The rows of mailwizz_delivery_servers_tests written by the current run.
RunRows == SubSeq(tests_table, rowsAtStart + 1, Len(tests_table))

RunWrote(row) == \E i \in 1..Len(RunRows) : RunRows[i] = row

VerdictRow(id, status, message) ==
    [delivery_server_id |-> id, status |-> status, error_message |-> message]

MappingCount(id) ==
    Cardinality({i \in 1..Len(group_table) :
                    group_table[i] = GroupRow(id, MAILWIZZ_DEFAULT_CUSTOMER_GROUP_ID)})

(***************************************************************************)
(* C1.  Whenever a stage of runForDeliveryServer throws, the run persists  *)
(* a Failed verdict row for the server carrying the message of the thrown  *)
(* error, then sets the server's status to inactive, then re-raises the    *)
(* same error.  Stated on the state in which the run has ended.            *)
(***************************************************************************)
C1_FailedVerdictThenDemoteThenRethrow ==
    (RunEnded /\ StageThrew) =>
        /\ \E i, j \in 1..Len(calls) :
              /\ i < j
              /\ calls[i] = Call("create(FAILED)", TRUE)
              /\ calls[j] = Call("updateDeliveryServerStatus", TRUE)
        /\ RunWrote(VerdictRow(serverId, "FAILED", ErrorMessage(error)))
        /\ (statusAtStart[serverId] # "absent"
                => mw_delivery_server[serverId] = "inactive")
        /\ outcome = [kind |-> "raised", error |-> error]

(***************************************************************************)
(* C2.  Every run writes exactly one verdict row, whatever the outcome of  *)
(* its steps, and no step changes a row that already exists: each step     *)
(* leaves the existing rows as they are, and the step that ends a run      *)
(* leaves the table exactly one row longer than at the start of the run.   *)
(***************************************************************************)
C2_ExactlyOneRowPerRun ==
    [][/\ Len(tests_table') >= Len(tests_table)
       /\ \A i \in 1..Len(tests_table) : tests_table'[i] = tests_table[i]
       /\ (pc # "idle" /\ pc' = "idle") => Len(tests_table') = rowsAtStart + 1]_vars

(***************************************************************************)
(* C3.  Fail-fast: once an awaited call of the try block has thrown, no    *)
(* later stage of the same run is executed, none is about to be executed   *)
(* and the retrieval loop is not running.                                  *)
(***************************************************************************)
C3_FailFast ==
    /\ \A i, j \in 1..Len(calls) :
          (i < j /\ IsTryStage(calls[i].op) /\ ~calls[i].ok)
              => ~IsTryStage(calls[j].op)
    /\ StageThrew => (~IsTryStage(pc) /\ pc # "return" /\ rpc = "idle")

C3_Witness ==
    /\ RunEnded
    /\ Len(calls) >= 5
    /\ calls[3] = Call("CampaignCreator.run", FALSE)

(***************************************************************************)
(* C4.  Whenever a run raises a failure to its caller, this run has        *)
(* persisted a Failed verdict row for the server and the server's status   *)
(* is inactive, also when the verdict write or the status update is the    *)
(* operation that failed.                                                  *)
(***************************************************************************)
C4_RaisedImpliesVerdictAndDemotion ==
    (RunEnded /\ outcome.kind = "raised") =>
        /\ \E i \in 1..Len(RunRows) :
              /\ RunRows[i].delivery_server_id = serverId
              /\ RunRows[i].status = "FAILED"
        /\ (statusAtStart[serverId] # "absent"
                => mw_delivery_server[serverId] = "inactive")

(***************************************************************************)
(* C5.  A step changes a server's status only to inactive, only for the    *)
(* server of the run in flight, and only when that run has persisted a     *)
(* Failed verdict row for that server; no step sets a status to active.    *)
(***************************************************************************)
C5_DemotionOnlyByFailedVerdict ==
    [][\A s \in ServerIds :
          mw_delivery_server'[s] # mw_delivery_server[s] =>
              /\ mw_delivery_server'[s] = "inactive"
              /\ s = serverId
              /\ \E i \in 1..Len(RunRows) :
                    /\ RunRows[i].delivery_server_id = s
                    /\ RunRows[i].status = "FAILED"]_vars

(***************************************************************************)
(* C6.  A run returns normally only after it has persisted a Successful    *)
(* verdict row for the server; it then has left every server status as it  *)
(* was and the mapping (serverId, default group) exists.                   *)
(***************************************************************************)
C6_ReturnImpliesSuccessfulVerdict ==
    (RunEnded /\ outcome.kind = "returned") =>
        /\ \E i \in 1..Len(RunRows) :
              /\ RunRows[i].delivery_server_id = serverId
              /\ RunRows[i].status = "SUCCESSFUL"
        /\ mw_delivery_server = statusAtStart
        /\ MappingCount(serverId) >= 1

(***************************************************************************)
(* C7.  Every stored verdict row has status Successful or Failed: the row  *)
(* of a run whose stages all passed is Successful, the row of a run whose  *)
(* stage failed is Failed and stores the error message.                    *)
(***************************************************************************)
C7_StoredStatusIsTheVerdict ==
    /\ \A i \in 1..Len(tests_table) :
          tests_table[i].status \in {"SUCCESSFUL", "FAILED"}
    /\ (RunEnded /\ ~StageThrew) =>
          RunRows = <<VerdictRow(serverId, "SUCCESSFUL", NullMessage)>>
    /\ (RunEnded /\ StageThrew /\ Len(RunRows) > 0) =>
          RunRows[Len(RunRows)] = VerdictRow(serverId, "FAILED", ErrorMessage(error))

(***************************************************************************)
(* C8.  The stages of a run are performed in the fixed program order, each *)
(* at most once: the k-th awaited call of the try block is the k-th stage, *)
(* and it is made only after every earlier stage completed without error;  *)
(* in particular the Successful verdict write (the 8th call) follows the   *)
(* seven calls before it, all completed without error.                     *)
(***************************************************************************)
C8_StagesInOrderNoBackEdge ==
    \A i \in 1..Len(calls) :
        IsTryStage(calls[i].op) =>
            /\ i <= Len(TryStages)
            /\ calls[i].op = TryStages[i]
            /\ \A j \in 1..(i - 1) : calls[j].ok

C8_Witness ==
    /\ Len(calls) >= 8
    /\ calls[8] = Call("create(SUCCESSFUL)", TRUE)
    /\ signals = <<TRUE, TRUE, FALSE>>

(***************************************************************************)
(* C9.  addDeliveryServerToCustomerGroup is idempotent: the mapping table  *)
(* never holds two rows for (serverId, default group), and a server with   *)
(* at least one successful run has exactly one.                            *)
(***************************************************************************)
C9_GroupMappingIdempotent ==
    \A s \in ServerIds :
        /\ MappingCount(s) <= 1
        /\ successes[s] >= 1 => MappingCount(s) = 1

C9_Witness ==
    \E s \in ServerIds : successes[s] >= 2 /\ MappingCount(s) = 1

(***************************************************************************)
(* C10.  retrieveEmailWithRetries with maxAttempts = N >= 1 whose attempts *)
(* all fail makes exactly N attempts, waits the configured interval        *)
(* exactly N - 1 times, always between two attempts and never after the    *)
(* last, and throws an error embedding the error of the last attempt.      *)
(***************************************************************************)
C10_ExactlyNAttempts ==
    /\ rpc = "waiting" => (attempts < maxAttempts /\ waits = attempts - 1)
    /\ rpc = "loop" => waits = (IF attempts < maxAttempts THEN attempts
                                ELSE maxAttempts - 1)
    /\ rpc = "threw" =>
          /\ attempts = maxAttempts
          /\ waits = maxAttempts - 1
          /\ waitedMs = (maxAttempts - 1) * timeBetweenAttemptsMs
          /\ attemptOutcome \in AttemptErrors
          /\ retrieverError = RetrievalFailedError(maxAttempts, attemptOutcome)

C10_Witness ==
    /\ rpc = "threw"
    /\ maxAttempts = 3
    /\ attempts = 3
    /\ waits = 2

HasBracketedTag(subject, tag) ==
    \E i \in 1..Len(subject) :
        /\ subject[i] = "["
        /\ i + Len(tag) + 1 <= Len(subject)
        /\ \A k \in 1..Len(tag) : subject[i + k] = tag[k]
        /\ subject[i + Len(tag) + 1] = "]"

CarriesTag(raw) ==
    raw.wellFormed /\ raw.hasSubject /\ HasBracketedTag(raw.subject, uuid)

C12_FirstTaggedMessageReturned ==
    /\ [](/\ fetched = [i \in 1..Len(fetched) |-> i]
          /\ Len(fetched) <= Len(messageList)
          /\ \A i \in 1..Len(fetched) :
                CarriesTag(messageList[i]) =>
                    /\ i = Len(fetched)
                    /\ rpc \in {"finally", "returned"}
                    /\ pending.kind = "value"
          /\ rpc = "returned" =>
                /\ Len(fetched) >= 1
                /\ CarriesTag(messageList[Len(fetched)])
                /\ retrievalResult.rawContent = Len(fetched)
                /\ retrievalResult.subject = messageList[Len(fetched)].subject)
    /\ [][rpc # "returned"]_vars

C12_Witness ==
    /\ rpc = "returned"
    /\ attempts = 2
    /\ uuid = <<"a", "b">>
    /\ Len(fetched) = 2
    /\ messageList[1] = RawEmail(TRUE, TRUE, <<"T", " ", "a", "b">>)

(***************************************************************************)
(* C13.  startEmailInteractions returns if and only if at least 2 of the 3 *)
(* signals (open, click, unsubscribe) succeeded, and throws otherwise:     *)
(* exactly 2 successes return, exactly 1 throws, and an email with no link *)
(* at all throws.                                                          *)
(***************************************************************************)
SignalsSucceeded ==
    Count(<<result.openSuccess, result.clickSuccess, result.unsubscribeSuccess>>)

NoLinkAtAll ==
    /\ emailLinks.pixel = NoUrl
    /\ emailLinks.content = <<>>
    /\ emailLinks.unsubscribe = NoUrl

C13_TwoOfThreeSignals ==
    ipc \in {"returned", "threw"} =>
        /\ ipc = "returned" <=> SignalsSucceeded >= 2
        /\ result.success <=> ipc = "returned"
        /\ ipc = "threw" => interactorError # NoError
        /\ NoLinkAtAll => ipc = "threw"

C13_Witness ==
    /\ ipc = "returned"
    /\ SignalsSucceeded = 2
    /\ emailLinks.unsubscribe = NoUrl

(***************************************************************************)
(* C14.  A simulated request makes its signal succeed exactly when the     *)
(* request came back with an HTTP response of status 2xx; a response with  *)
(* any other status fails the signal with the error "HTTP <status>", and a *)
(* connection-level error or timeout fails it with the error's message.    *)
(***************************************************************************)
SignalSucceeded(actionType) ==
    CASE actionType = "open" -> result.openSuccess
      [] actionType = "click" -> result.clickSuccess
      [] actionType = "unsubscribe" -> result.unsubscribeSuccess

SignalError(actionType) ==
    CASE actionType = "open" -> result.errors.openError
      [] actionType = "click" -> result.errors.clickError
      [] actionType = "unsubscribe" -> result.errors.unsubscribeError

C14_SuccessIsA2xxResponse ==
    \A i \in 1..Len(requests) :
        LET r == requests[i]
            accepted == r.outcome.kind = "response" /\ r.outcome.status \in 200..299
        IN  /\ SignalSucceeded(r.actionType) <=> accepted
            /\ ~accepted =>
                  SignalError(r.actionType) =
                      (IF r.outcome.kind = "response"
                       THEN Message("HTTP", r.outcome.status, <<>>)
                       ELSE Text(r.outcome.message))

C14_Witness ==
    /\ Len(requests) = 2
    /\ requests[1].outcome = HttpResponse(404)
    /\ ~result.openSuccess
    /\ requests[2].outcome = HttpResponse(204)
    /\ result.clickSuccess

(***************************************************************************)
(* C14 as stated.  A simulated request makes its signal succeed whenever   *)
(* the server returned any HTTP response, whatever its status code; the    *)
(* signal fails only on a connection-level error or timeout.               *)
(***************************************************************************)
C14_AnyResponseIsSuccess ==
    \A i \in 1..Len(requests) :
        SignalSucceeded(requests[i].actionType)
            <=> requests[i].outcome.kind = "response"

(***************************************************************************)
(* C15.  For each of the three link types the simulator issues exactly one *)
(* GET when the link is present (to the pixel, to the first content link,  *)
(* to the unsubscribe link) and none when it is absent; an absent link     *)
(* makes its signal a failure; the three types are processed in the order  *)
(* open, click, unsubscribe whether or not an earlier one failed.          *)
(***************************************************************************)
Target(url, actionType) == [url |-> url, actionType |-> actionType]

ExpectedTargets ==
    (IF emailLinks.pixel # NoUrl
     THEN <<Target(emailLinks.pixel, "open")>> ELSE <<>>)
    \o (IF emailLinks.content # <<>>
        THEN <<Target(emailLinks.content[1], "click")>> ELSE <<>>)
    \o (IF emailLinks.unsubscribe # NoUrl
        THEN <<Target(emailLinks.unsubscribe, "unsubscribe")>> ELSE <<>>)

Targets == [i \in 1..Len(requests) |->
               Target(requests[i].url, requests[i].actionType)]

C15_OneGetPerPresentLinkInOrder ==
    /\ Len(requests) <= Len(ExpectedTargets)
    /\ Targets = SubSeq(ExpectedTargets, 1, Len(requests))
    /\ ipc \in {"count", "returned", "threw"} =>
          /\ Targets = ExpectedTargets
          /\ emailLinks.pixel = NoUrl =>
                /\ ~result.openSuccess
                /\ result.errors.openError = Text("No tracking pixel URL found")
          /\ emailLinks.content = <<>> =>
                /\ ~result.clickSuccess
                /\ result.errors.clickError = Text("No content links found")
          /\ emailLinks.unsubscribe = NoUrl =>
                /\ ~result.unsubscribeSuccess
                /\ result.errors.unsubscribeError = Text("No unsubscribe link found")

C15_Witness ==
    /\ ipc = "returned"
    /\ Len(requests) = 3
    /\ requests[1].outcome.kind = "error"
    /\ Len(emailLinks.content) = 2

(***************************************************************************)
(* C16.  validateInteractionRecords returns if and only if each of the 4   *)
(* stores (open, click, unsubscribe, bounce) reported a record, and throws *)
(* otherwise; when exactly one store reported none, the message of the     *)
(* error is the message of that signal and nothing else.                   *)
(***************************************************************************)
MissingRecordMessage(store) ==
    CASE store = "open" ->
            Message("No email open tracking records found in database", 0, <<>>)
      [] store = "click" ->
            Message("No URL click tracking records found in database", 0, <<>>)
      [] store = "unsubscribe" ->
            Message("No unsubscribe tracking records found in database", 0, <<>>)
      [] store = "bounce" ->
            Message("No bounce records found after attempts", 10, <<>>)

AuditPastSingleChecks == vpc \in {"bounce", "bounce_wait", "finish", "returned", "threw"}
BounceLoopLeft == vpc \in {"finish", "returned", "threw"}

C17_SingleChecksAndBoundedBounceLoop ==
    /\ \A st \in {"open", "click", "unsubscribe"} :
          /\ queries[st].n <= 1
          /\ AuditPastSingleChecks => queries[st].n = 1
    /\ queries["bounce"].n <= 10
    /\ queries["bounce"].n = bounceAttempts
    /\ bounceWaitedMs = bounceWaits * 60000
    /\ queries["bounce"].found =>
          (BounceLoopLeft /\ bounceWaits = queries["bounce"].n - 1)
    /\ vpc = "bounce_wait" =>
          (queries["bounce"].n < 10 /\ bounceWaits = queries["bounce"].n - 1)
    /\ (BounceLoopLeft /\ ~queries["bounce"].found) =>
          /\ queries["bounce"].n = 10
          /\ bounceWaits = 9
          /\ bounceWaitedMs = 540000

C17_Witness ==
    /\ vpc = "threw"
    /\ ~queries["bounce"].found
    /\ queries["bounce"].n = 10
    /\ bounceWaits = 9
    /\ queries["open"].found

(***************************************************************************)
(* C18.  When the audit of a run found open, click and unsubscribe records *)
(* but no bounce record in any of its 10 attempts, the run has persisted a *)
(* Failed verdict row whose message is exactly "No bounce records found    *)
(* after 10 attempts" and the status of the server is inactive.            *)
(***************************************************************************)
C18_BounceAbsentFailedVerdictAndDemotion ==
    (RunEnded /\ audit = <<TRUE, TRUE, TRUE, FALSE>>) =>
        /\ RunWrote(VerdictRow(serverId, "FAILED",
                               Message("No bounce records found after attempts",
                                       10, <<>>)))
        /\ mw_delivery_server[serverId] = "inactive"

(***************************************************************************)
(* C19.  testEmailHeaders returns if and only if the Sender, the From and  *)
(* the Reply-To check all three passed, and throws otherwise; the error it *)
(* throws lists the error of every header that failed, in the order        *)
(* Sender, From, Reply-To; an email without a Reply-To header makes it     *)
(* throw whatever its From and Sender are.                                 *)
(***************************************************************************)
FailedHeaderErrors ==
    (IF hresult.hasSender THEN <<>> ELSE <<hresult.errors.senderError>>)
    \o (IF hresult.hasFrom THEN <<>> ELSE <<hresult.errors.fromError>>)
    \o (IF hresult.hasReplyTo THEN <<>> ELSE <<hresult.errors.replyToError>>)

ReplyToMissing ==
    \A k \in {"reply-to", "Reply-To", "replyto", "ReplyTo"} : email.headers[k] = <<>>

C19_AllThreeHeadersRequired ==
    hpc \in {"returned", "threw"} =>
        /\ hpc = "returned" <=>
              (hresult.hasSender /\ hresult.hasFrom /\ hresult.hasReplyTo)
        /\ hresult.success <=> hpc = "returned"
        /\ \A i \in 1..Len(FailedHeaderErrors) : FailedHeaderErrors[i] # NullMessage
        /\ hpc = "threw" =>
              headerError.message =
                  (IF Len(FailedHeaderErrors) = 1 THEN FailedHeaderErrors[1]
                   ELSE Message(", ", 0, FailedHeaderErrors))
        /\ ReplyToMissing =>
              /\ hpc = "threw"
              /\ hresult.errors.replyToError =
                    Message("Reply-To header is missing", 0, <<>>)

C19_Witness ==
    /\ hpc = "threw"
    /\ hresult.hasSender
    /\ ~hresult.hasFrom
    /\ ~hresult.hasReplyTo
    /\ ~ReplyToMissing

(***************************************************************************)
(* C20.  A From or Reply-To header that carries a display name is accepted *)
(* exactly when that name equals, case-insensitively, the domain of the    *)
(* server's from-email with or without its top-level-domain suffix, and    *)
(* its address equals the from-email; any other display name is rejected.  *)
(***************************************************************************)
DomainOf(address) ==
    SubSeq(address, Min({i \in 1..Len(address) : address[i] = "@"}) + 1, Len(address))

WithoutTldSuffix(domain) ==
    LET dots == {i \in 1..Len(domain) : domain[i] = "."}
    IN  IF dots = {} THEN domain ELSE SubSeq(domain, 1, Max(dots) - 1)

FromInput == CHOOSE v \in HeaderValues : v.text = email.from
ReplyToInput == CHOOSE v \in HeaderValues : v.text = email.headers["reply-to"]

NameAndAddressExpected(v) ==
    /\ \/ toLowerCase(v.name) = toLowerCase(DomainOf(from_email))
       \/ toLowerCase(v.name) = toLowerCase(WithoutTldSuffix(DomainOf(from_email)))
    /\ toLowerCase(v.address) = toLowerCase(from_email)

C20_NameIsDomainWithOrWithoutTld ==
    hpc \in {"returned", "threw"} =>
        /\ FromInput.name # <<>> =>
              (hresult.hasFrom <=> NameAndAddressExpected(FromInput))
        /\ ReplyToInput.name # <<>> =>
              (hresult.hasReplyTo <=> NameAndAddressExpected(ReplyToInput))

(***************************************************************************)
(* C21.  The outcome of each header check is the same however the message  *)
(* writes the header's name (lower case, capitalised, upper case) and      *)
(* however the header's address and the server's from-email are cased; the *)
(* Sender check is the same for the bare address and for a display name    *)
(* followed by the address in angle brackets, and the From and Reply-To    *)
(* checks are the same for the bare address and for the domain as display  *)
(* name, quoted or not, followed by the address in angle brackets.  So no  *)
(* such change turns a pass into a failure.                                *)
(***************************************************************************)
UpperChar(ch) ==
    CASE ch = "a" -> "A"
      [] ch = "b" -> "B"
      [] ch = "c" -> "C"
      [] ch = "m" -> "M"
      [] ch = "o" -> "O"
      [] ch = "t" -> "T"
      [] ch = "x" -> "X"
      [] OTHER -> ch

UpperFrom(str, first, last) ==
    [i \in 1..Len(str) |-> IF i >= first /\ i <= last THEN UpperChar(str[i]) ELSE str[i]]

\* An address with its local part, its domain, both or neither in upper case
AddressCasings(address) ==
    LET at == indexOf(address, "@") + 1
    IN  {address, UpperFrom(address, 1, at), UpperFrom(address, at, Len(address)),
         UpperFrom(address, 1, Len(address))}

ValueCasings(v) ==
    IF v = MissingHeader THEN {v}
    ELSE {HeaderValue(v.name, v.quoted, ad) : ad \in AddressCasings(v.address)}

\* The same address bare, and after a display name, quoted or not
AddressForms(v, names) ==
    IF v = MissingHeader THEN {v}
    ELSE {HeaderValue(<<>>, FALSE, v.address)}
            \cup {HeaderValue(nm, q, v.address) : nm \in names, q \in BOOLEAN}

SenderInput == CHOOSE v \in SenderValues : v.text = email.headers["sender"]

Revalidated(names, sv, fv, rv, fromEmail) ==
    validateEmailHeaders(ParsedHeaders(names, sv, fv, rv), fromEmail)

C22_EachServerStartedAtMostOncePerCycle ==
    \A i, j \in 1..Len(started) : started[i] = started[j] => i = j

(***************************************************************************)
(* C23.  In a scan cycle runForDeliveryServer is started for every entry   *)
(* of the due list, in order, whether the runs before it returned or       *)
(* threw, and the cycle itself returns normally.                           *)
(***************************************************************************)
CycleReturned == spc = "waiting"

C23_FailureDoesNotAbortTheScan ==
    /\ spc \in {"idle", "fetchUpdated", "fetchNotTested", "loop", "awaitRun", "waiting"}
    /\ spc = "loop" => started = SubSeq(serversToTest, 1, scanIndex - 1)
    /\ spc = "awaitRun" => started = SubSeq(serversToTest, 1, scanIndex)
    /\ CycleReturned =>
          /\ started = serversToTest
          /\ Len(runOutcomes) = Len(serversToTest)

\* The first run threw, the second was started all the same and the cycle returned
C23_Witness ==
    /\ CycleReturned
    /\ Len(started) = 2
    /\ started[1] # started[2]
    /\ runOutcomes[1].kind = "threw"
    /\ runOutcomes[2].kind = "returned"

(***************************************************************************)
(* C24.  Within a scan cycle at most one run is in flight at any time: a   *)
(* run is started only when every run started before it has completed.     *)
(***************************************************************************)
C24_AtMostOneRunInFlight ==
    /\ inFlight <= 1
    /\ inFlight = Len(started) - Len(runOutcomes)
    /\ inFlight = 1 <=> spc = "awaitRun"

\* The second run of a cycle is in flight, the first has completed
C24_Witness ==
    /\ inFlight = 1
    /\ Len(started) = 2
    /\ Len(runOutcomes) = 1

(***************************************************************************)
(* C25.  The on-demand invocation answers 200 with the message "Test       *)
(* completed successfully" exactly when the run returned; it answers 404   *)
(* and starts no run when no server id or an invalid one is supplied; it   *)
(* answers 500 with the run's failure message when the run threw.          *)
(***************************************************************************)
NoOrInvalidServerId ==
    \/ ~queryStringParameters.present
    \/ ~queryStringParameters.hasId
    \/ parseInt(queryStringParameters.text).nan

C25_OnDemandResponses ==
    lpc = "responded" =>
        /\ (response = Response(200, Message("Test completed successfully", 0, <<>>)))
               <=> lambdaRun.kind = "returned"
        /\ NoOrInvalidServerId =>
               (response.statusCode = 404 /\ ~lambdaRun.started)
        /\ lambdaRun.kind = "threw" =>
               (response.statusCode = 500 /\ response.message = lambdaRun.error.message)

(***************************************************************************)
(* C26.  Over the runs of a process no two campaigns created carry the     *)
(* same subject tag; the tag CampaignCreator returns is the one in the     *)
(* brackets of the subject it passed to the stored procedure, and it is    *)
(* the one the retriever is called with in that run, which therefore       *)
(* matches the subject of that run's campaign and of no other.             *)
(***************************************************************************)
\* The text between the last "[" of a subject and the "]" that ends it
BracketTag(subject) ==
    LET open == Max({i \in 1..Len(subject) : subject[i] = "["})
    IN  SubSeq(subject, open + 1, Len(subject) - 1)

SubjectMatches(subject, tag) == isEmailForSubjectUuid([subject |-> subject], tag)

C26_FreshTagPerRunAndSameTagThroughout ==
    /\ \A i, j \in 1..Len(campaign_table) :
          BracketTag(campaign_table[i].subject) = BracketTag(campaign_table[j].subject)
              => i = j
    /\ Len(searched) <= Len(campaign_table)
    /\ \A k \in 1..Len(searched) :
          \A i \in 1..Len(campaign_table) :
              SubjectMatches(campaign_table[i].subject, searched[k]) <=> i = k
    /\ \A k \in 1..Len(searched) :
          \A m \in 1..Len(inbox) :
              SubjectMatches(inbox[m], searched[k]) <=> inbox[m] = campaign_table[k].subject
    /\ jpc = "retrieve" =>
          /\ campaignData.campaignId = campaign_table[Len(campaign_table)].campaign_id
          /\ campaignData.campaignSubjectUuid =
                 BracketTag(campaign_table[Len(campaign_table)].subject)
    /\ (jpc = "idle" /\ Len(searched) > 0 /\ injectorError = NoError) =>
          /\ uuid = campaignData.campaignSubjectUuid
          /\ uuid = searched[Len(searched)]

\* Two runs of the same server, each with its campaign created and searched for
C26_Witness ==
    /\ Len(campaign_table) = 2
    /\ Len(searched) = 2
    /\ campaign_table[1].delivery_server_id = campaign_table[2].delivery_server_id
    /\ searched[1] # searched[2]
    /\ Len(inbox) = 2

(***************************************************************************)
(* C27.  When the campaign-creation procedure returns no campaign id,      *)
(* CampaignCreator.run throws; the run then calls no mailbox retrieval,    *)
(* and when it has ended it has raised, has persisted a Failed verdict row *)
(* for the server and the server is inactive.                              *)
(***************************************************************************)
\* Step 2 of the current run threw because no campaign id came back
NoCampaignIdThrown ==
    /\ \E i \in 1..Len(calls) : calls[i] = Call("CampaignCreator.run", FALSE)
    /\ error = NoCampaignIdError

C27_NoCampaignIdFailsTheRun ==
    NoCampaignIdThrown =>
        /\ \A i \in 1..Len(calls) : calls[i].op # "retrieveEmailWithRetries"
        /\ rpc = "idle"
        /\ RunEnded =>
              /\ outcome.kind = "raised"
              /\ \E i \in 1..Len(RunRows) :
                    /\ RunRows[i].delivery_server_id = serverId
                    /\ RunRows[i].status = "FAILED"
                    /\ RunRows[i].error_message = ErrorMessage(NoCampaignIdError)
              /\ mw_delivery_server[serverId] = "inactive"

(***************************************************************************)
(* C28.  A database error during the single open, click or unsubscribe     *)
(* check of an audit is not reported as an absent record: when the only    *)
(* query made to such a store threw, the audit does not carry that store's *)
(* `No ... records found` message.                                         *)
(***************************************************************************)
SingleCheckStores == {"open", "click", "unsubscribe"}

ReportedAbsent(store) ==
    CASE store = "open" -> vresult.errors.openError = OpenRecordsError
      [] store = "click" -> vresult.errors.clickError = ClickRecordsError
      [] store = "unsubscribe" ->
            vresult.errors.unsubscribeError = UnsubscribeRecordsError

C28_DbErrorIsNotReportedAsAbsentRecord ==
    \A st \in SingleCheckStores :
        (queries[st].n = 1 /\ queries[st].threw = 1) => ~ReportedAbsent(st)

(***************************************************************************)
(* C29.  Once SIGINT has been received no step starts a run for a further  *)
(* server, and once close() has released the pool no step issues a query:  *)
(* the pool, which every query creates when there is none, stays released. *)
(***************************************************************************)
SignalReceived == sig # "none"
PoolReleased == sig \in {"closed", "exited"}

C29_NoNewRunNorQueryAfterShutdownSignal ==
    [][/\ SignalReceived => started' = started
       /\ PoolReleased => pool' = "null"]_vars

(***************************************************************************)
(* C30.  Runs of different servers that overlap in time end as each would  *)
(* have ended alone: in an environment without I/O failures, where a run   *)
(* on its own returns and leaves its server active, every run that has     *)
(* ended has returned and its server is active.                            *)
(***************************************************************************)
EndedAsAlone(r) ==
    cpc[r] = "ended" => (concOutcome[r] = "returned" /\ mw_delivery_server[r] = "active")

\* Runs that do not overlap end as a run alone does
RunsInTurnEndAsAlone == ~overlap => \A r \in ServerIds : EndedAsAlone(r)

C30_ConcurrentRunsDoNotInterfere ==
    overlap => \A r \in ServerIds : EndedAsAlone(r)

(***************************************************************************)
(* C31.  An extractor returns null or the empty list when nothing matches  *)
(* or when loading the HTML throws.  The pixel extractor returns the src   *)
(* of an image containing /track/open/ whenever the email has one, and a   *)
(* src containing `track` otherwise, if there is one.  contentLinks holds  *)
(* no href that starts with javascript: or mailto: or that contains        *)
(* /unsubscribe/.                                                          *)
(***************************************************************************)
HasImage(doc, sub) == \E i \in 1..Len(doc) : ImgSrcContains(doc[i], sub)

PixelAsSpecified(doc, pixel) ==
    /\ pixel # NullLink => HasImage(doc, TrackWord) /\ Includes(pixel, TrackWord)
    /\ ~HasImage(doc, TrackWord) => pixel = NullLink
    /\ (pixel # NullLink /\ HasImage(doc, TrackOpenPath))
          => Includes(pixel, TrackOpenPath)

C31_ExtractorsReturnEmptyOrTheSpecifiedLink ==
    /\ xpc \in {"click", "unsubscribe", "done"} =>
          /\ PixelAsSpecified(emailContent, extracted.pixel)
          /\ HasImage(emailContent, TrackOpenPath) =>
                Includes(extractTrackingPixelUrl(emailContent, TRUE), TrackOpenPath)
    /\ xpc \in {"unsubscribe", "done"} =>
          /\ \A i \in 1..Len(extracted.content) :
                /\ ~startsWithPrefix(extracted.content[i], JavascriptScheme)
                /\ ~startsWithPrefix(extracted.content[i], MailtoScheme)
                /\ ~Includes(extracted.content[i], UnsubscribePath)
          /\ (\A i \in 1..Len(emailContent) :
                  ~(emailContent[i].tag = "a" /\ IsContentHref(emailContent[i].url)))
                => extracted.content = <<>>
    /\ xpc = "done" =>
          ((\A i \in 1..Len(emailContent) : ~IsUnsubscribeAnchor(emailContent[i]))
                => extracted.unsubscribe = NullLink)

\* An image with `track` before the image with /track/open/: the latter is
\* the pixel
C31_Witness ==
    /\ xpc = "done"
    /\ Len(emailContent) = 2
    /\ emailContent[1].tag = "img"
    /\ Includes(emailContent[1].url, TrackWord)
    /\ ~Includes(emailContent[1].url, TrackOpenPath)
    /\ Includes(extracted.pixel, TrackOpenPath)

(***************************************************************************)
(* C39.  In one interaction simulation the URL acted on for the click is   *)
(* never the URL acted on for the unsubscribe.                             *)
(***************************************************************************)
C39_ClickIsNeverTheUnsubscribeLink ==
    (xpc = "done" /\ interactedLinks.clickedUrl # NullLink)
        => interactedLinks.clickedUrl # interactedLinks.unsubscribeUrl

(***************************************************************************)
(* C32.  When the requested server does not exist, the run fails with the  *)
(* not-found error after the one look-up, with no preparation, injection   *)
(* or retrieval; when the run has ended it has raised, has written a       *)
(* Failed verdict row for that id and has issued the demotion update.      *)
(***************************************************************************)
NotFoundThrown ==
    /\ Len(calls) > 0
    /\ calls[1] = Call("getDeliveryServer", FALSE)
    /\ error = NotFoundError(serverId)

C32_AbsentServerFailsAtOnceWithVerdictAndDemotion ==
    NotFoundThrown =>
        /\ statusAtStart[serverId] = "absent"
        /\ \A i \in 1..Len(calls) : i > 1 => ~IsTryStage(calls[i].op)
        /\ rpc = "idle"
        /\ RunEnded =>
              /\ outcome.kind = "raised"
              /\ \E i \in 1..Len(RunRows) :
                    /\ RunRows[i].delivery_server_id = serverId
                    /\ RunRows[i].status = "FAILED"
              /\ \E i \in 1..Len(calls) : calls[i].op = "updateDeliveryServerStatus"

(***************************************************************************)
(* C33.  Provided every awaited call returns or throws, every run of       *)
(* runForDeliveryServer ends.  The retrieval loop makes at most 20         *)
(* attempts and the bounce loop at most 10; a run that has ended has       *)
(* returned after the write of the Successful verdict completed, or has    *)
(* raised from the catch block.                                            *)
(***************************************************************************)
Completed(op) == \E i \in 1..Len(calls) : calls[i] = Call(op, TRUE)

EndedByReturnOrByCatch ==
    RunEnded =>
        \/ outcome.kind = "returned" /\ Completed("create(SUCCESSFUL)") /\ ~StageThrew
        \/ /\ outcome.kind = "raised"
           /\ StageThrew
           /\ \E i \in 1..Len(calls) : calls[i].op = "create(FAILED)"

C33_EveryRunTerminates ==
    /\ [](attempts <= 20 /\ bounceAttempts <= 10)
    /\ []EndedByReturnOrByCatch
    /\ (pc # "idle" ~> RunEnded)

\* A run that ended after the bounce loop had used all its attempts
C33_Witness ==
    /\ RunEnded
    /\ outcome.kind = "raised"
    /\ Len(calls) >= 6
    /\ calls[4] = Call("retrieveEmailWithRetries", TRUE)
    /\ calls[6] = Call("validateInteractionRecords", FALSE)
    /\ audit = <<TRUE, TRUE, TRUE, FALSE>>

(***************************************************************************)
(* C34.  The periodic loop is never stopped by a scan cycle that failed:   *)
(* main neither rejects nor exits, after a cycle the next one begins once  *)
(* the configured wait is over, and a server that the cycle selected is    *)
(* run in that cycle, however the runs before it ended.                    *)
(***************************************************************************)
AwaitingItsTurn(s) ==
    /\ spc \in {"loop", "awaitRun"}
    /\ \E i \in 1..Len(serversToTest) : i > Len(started) /\ serversToTest[i] = s

LoopGoesOn == spc \notin {"rejected", "exited"}

InOrder ==
    /\ Len(statements) <= Len(PreparationSteps)
    /\ \A i \in 1..Len(statements) : statements[i].name = PreparationSteps[i]

QuotaUpdateFailed == Len(statements) = 3 /\ ~statements[3].ok

C35_PreparationInOrderAndOnlyQuotaErrorFails ==
    /\ InOrder
    /\ injectionStarted => (Len(statements) = 3 /\ statements[3].ok)
    /\ ppc \in {"threw", "catch"} <=> QuotaUpdateFailed
    /\ QuotaUpdateFailed => ~injectionStarted
    /\ (Len(statements) = 3 /\ statements[3].ok) => quota[prepared] = "unlimited"

\* The injection started although both subscriber statements had failed
C35_Witness ==
    /\ injectionStarted
    /\ ~statements[1].ok
    /\ ~statements[2].ok

(***************************************************************************)
(* C36.  Within one retrieval attempt a message that cannot be parsed is   *)
(* skipped and the scan goes on with the next message.  An error of UIDL   *)
(* or RETR ends the scan of that attempt; the session is closed, the error *)
(* is recorded as that attempt's failure without a further attempt being   *)
(* counted, and the loop waits and retries if attempts remain.             *)
(***************************************************************************)
TransferErrors == {"UIDL failed", "RETR failed"}

UnparseableIsSkipped ==
    (/\ rpc = "scan"
     /\ cursor < Len(messageList)
     /\ fetched' # fetched
     /\ ~messageList[cursor + 1].wellFormed)
        => /\ rpc' = "scan"
           /\ cursor' = cursor + 1
           /\ pending' = pending
           /\ UNCHANGED <<attempts, session, lastError>>

TransferErrorAbortsTheAttempt ==
    (pending' # pending /\ pending'.message \in TransferErrors)
        => /\ rpc' = "finally"
           /\ UNCHANGED <<attempts, cursor, fetched>>

AbortedAttemptIsClosedAndRetried ==
    (rpc = "finally" /\ rpc' # rpc /\ pending.message \in TransferErrors)
        => /\ session' = "none"
           /\ attemptOutcome' = pending.message
           /\ lastError' = pending.message
           /\ UNCHANGED <<attempts, retrievalResult>>
           /\ rpc' = IF attempts < maxAttempts THEN "waiting" ELSE "loop"

WaitThenRetry ==
    /\ (rpc = "waiting" /\ rpc' # rpc) => (rpc' = "loop" /\ waits' = waits + 1)
    /\ (rpc = "loop" /\ rpc' = "connect") => attempts' = attempts + 1

Issued(op) == \E i \in 1..Len(calls) : calls[i].op = op

C37_NoFailedVerdictNorDemotionAfterSuccessfulVerdict ==
    Completed("create(SUCCESSFUL)") =>
        /\ ~Issued("create(FAILED)")
        /\ ~Issued("updateDeliveryServerStatus")
        /\ mw_delivery_server[serverId] = statusAtStart[serverId]

(***************************************************************************)
(* C38.  When the scanner starts a run, the status of that server is       *)
(* active at that moment; a server that a failed run of the cycle has set  *)
(* to inactive is not started again in that cycle.                         *)
(***************************************************************************)
RunStartsNow == Len(started') = Len(started) + 1

C38_NoRunStartedForAnInactiveServer ==
    [][RunStartsNow =>
          mw_delivery_server[started'[Len(started')]] = "active"]_vars

====
